---- MODULE Spec2Model ----
(***************************************************************************)
(* Model of processorSim's pipeline simulator (src/src/sim_services.py):   *)
(* simulate() runs _run_cycle() until every instruction has entered and    *)
(* retired, or a cycle makes no progress (StallError).  A unit is named by *)
(* the rank of its name in the case-folded name order of its processor, so *)
(* that sorting units by name is sorting their numbers.                    *)
(***************************************************************************)
EXTENDS Integers, Sequences, FiniteSets, TLC

VARIABLES hw_info, program, util_tbl, acc_queues, entered, exited,
          old_util, cp_util, cp_shared, mem_busy, dst_idx, accepted, pc,
          processor_state,
          raw_desc, load_pc, flow_graph, load_result,
          bag_self, bag_other, bag_result

\* cp_shared holds the keys whose lists the working utilization cp_util
\* shares, as objects, with the last entry of util_tbl.
\* The state of load_proc_desc: the description being loaded, the step
\* reached, the graph built so far and the outcome.
load_vars == <<raw_desc, load_pc, flow_graph, load_result>>

\* Two dictionaries under comparison and the outcome of the operation
\* applied to them.
bag_vars == <<bag_self, bag_other, bag_result>>

vars == <<hw_info, program, util_tbl, acc_queues, entered, exited,
          old_util, cp_util, cp_shared, mem_busy, dst_idx, accepted, pc,
          processor_state, load_vars, bag_vars>>

\* Longest program simulated.
MaxProg == 3

(***************************************************************************)
(* Stall states and instruction states                                     *)
(***************************************************************************)
StallState == {"NO_STALL", "STRUCTURAL", "DATA"}

InstrState(instr, stalled) == [instr |-> instr, stalled |-> stalled]

(***************************************************************************)
(* Generic sequence helpers                                                *)
(***************************************************************************)
Range(s) == {s[i] : i \in DOMAIN s}

\* The sequence without its element at position i (del lst[i]).
DelAt(s, i) == SubSeq(s, 1, i - 1) \o SubSeq(s, i + 1, Len(s))

RECURSIVE chain(_)
chain(ss) == IF ss = <<>> THEN <<>> ELSE Head(ss) \o chain(Tail(ss))

\* The first n elements of s (itertools.islice(s, n)).
Islice(s, n) == SubSeq(s, 1, IF n < Len(s) THEN n ELSE Len(s))

(***************************************************************************)
(* Hardware descriptions.  A unit model has a name, a width, capabilities, *)
(* lock information and a memory access flag; a functional unit is a model *)
(* with its predecessors; a processor lists its units by role, internal    *)
(* units successors first.  A name is the rank of the unit's name in the   *)
(* name order of its processor.                                            *)
(***************************************************************************)
LockInfo(rd_lock, wr_lock) == [rd_lock |-> rd_lock, wr_lock |-> wr_lock]

UnitModel(name, width, capabilities, lock_info, mem_access) ==
    [name |-> name, width |-> width, capabilities |-> capabilities,
     lock_info |-> lock_info, mem_access |-> mem_access]

FuncUnit(model, predecessors) ==
    [model |-> model, predecessors |-> predecessors]

\* The positions of the units none of which the units of the list have
\* for predecessor: those whose successors are all out of the list.
_no_succ_left(units) ==
    {i \in DOMAIN units :
        \A j \in DOMAIN units :
            \A k \in DOMAIN units[j].predecessors :
                units[j].predecessors[k].name # units[i].model.name}

\* A variant of _post_order that keeps the units as they are supplied.
_post_order_as_supplied(internal_units) == internal_units

\* The internal units in reverse topological order: the next unit is the
\* first supplied of those with no successor left to place.  (Units on a
\* loop, which no loaded processor has, stay as supplied.)
RECURSIVE _post_order(_)
_post_order(internal_units) ==
    IF internal_units = <<>> \/ _no_succ_left(internal_units) = {}
    THEN internal_units
    ELSE LET i == CHOOSE i \in _no_succ_left(internal_units) :
                    \A j \in _no_succ_left(internal_units) : i <= j
         IN  <<internal_units[i]>> \o _post_order(DelAt(internal_units, i))

ProcessorDesc(in_ports, out_ports, in_out_ports, internal_units) ==
    [in_ports |-> in_ports, out_ports |-> out_ports,
     in_out_ports |-> in_out_ports,
     internal_units |-> _post_order(internal_units)]

\* Two cores, each an input and an output at once; "core 1" accesses
\* memory and is two instructions wide, "core 2" is one wide.  The
\* description lists core 2 first.  No unit supports MEM.
DualCoreProc ==
    LET core1 == UnitModel(1, 2, {"ALU"}, LockInfo(TRUE, TRUE), TRUE)
        core2 == UnitModel(2, 1, {"ALU"}, LockInfo(TRUE, TRUE), FALSE)
    IN  ProcessorDesc(<<>>, <<>>, <<core2, core1>>, <<>>)

\* "long input" -> "middle" -> "output" <- "short input"; the output holds
\* both locks, the middle and the short input access memory.
TwoPathProc ==
    LET long_input == UnitModel(1, 1, {"ALU"}, LockInfo(FALSE, FALSE), FALSE)
        mid == UnitModel(2, 1, {"ALU", "MEM"}, LockInfo(FALSE, FALSE), TRUE)
        out_unit == UnitModel(3, 1, {"ALU", "MEM"}, LockInfo(TRUE, TRUE), FALSE)
        short_input == UnitModel(4, 1, {"ALU"}, LockInfo(FALSE, FALSE), TRUE)
    IN  ProcessorDesc(<<short_input, long_input>>,
                      <<FuncUnit(out_unit, <<mid, short_input>>)>>, <<>>,
                      <<FuncUnit(mid, <<long_input>>)>>)

\* "in a" (width 2) and "in b" feed "mem out" (width 2, memory access),
\* which lists "in b" first; "in b" also feeds "out", which supports ALU
\* only.
SplitOutProc ==
    LET in_a == UnitModel(1, 2, {"ALU", "MEM"}, LockInfo(TRUE, FALSE), FALSE)
        in_b == UnitModel(2, 1, {"ALU", "MEM"}, LockInfo(TRUE, FALSE), FALSE)
        mem_out == UnitModel(3, 2, {"ALU", "MEM"}, LockInfo(FALSE, TRUE), TRUE)
        out_unit == UnitModel(4, 1, {"ALU"}, LockInfo(FALSE, TRUE), FALSE)
    IN  ProcessorDesc(<<in_a, in_b>>,
                      <<FuncUnit(mem_out, <<in_b, in_a>>),
                        FuncUnit(out_unit, <<in_b>>)>>, <<>>, <<>>)

\* "input" -> "middle 1" -> "middle 2" -> "output", ALU only; the input
\* is three wide, middle 1 two, the others one and accessing memory;
\* internal units are listed successors first.
FourStageProc ==
    LET in_unit == UnitModel(1, 3, {"ALU"}, LockInfo(TRUE, FALSE), FALSE)
        mid1 == UnitModel(2, 2, {"ALU"}, LockInfo(FALSE, FALSE), FALSE)
        mid2 == UnitModel(3, 1, {"ALU"}, LockInfo(FALSE, FALSE), TRUE)
        out_unit == UnitModel(4, 1, {"ALU"}, LockInfo(FALSE, TRUE), TRUE)
    IN  ProcessorDesc(<<in_unit>>, <<FuncUnit(out_unit, <<mid2>>)>>, <<>>,
                      <<FuncUnit(mid2, <<mid1>>), FuncUnit(mid1, <<in_unit>>)>>)

\* "input" -> "middle" -> "output", ALU only, each one instruction wide;
\* no unit accesses memory.
ThreeStageProc ==
    LET in_unit == UnitModel(1, 1, {"ALU"}, LockInfo(TRUE, FALSE), FALSE)
        mid == UnitModel(2, 1, {"ALU"}, LockInfo(FALSE, FALSE), FALSE)
        out_unit == UnitModel(3, 1, {"ALU"}, LockInfo(FALSE, TRUE), FALSE)
    IN  ProcessorDesc(<<in_unit>>, <<FuncUnit(out_unit, <<mid>>)>>, <<>>,
                      <<FuncUnit(mid, <<in_unit>>)>>)

\* "input 1" -> "output 1" and "input 2" -> "output 2", ALU only, one
\* instruction wide and with no locks; "input 2" and "output 1" access
\* memory.
MemHostProc ==
    LET in1 == UnitModel(1, 1, {"ALU"}, LockInfo(FALSE, FALSE), FALSE)
        in2 == UnitModel(2, 1, {"ALU"}, LockInfo(FALSE, FALSE), TRUE)
        out1 == UnitModel(3, 1, {"ALU"}, LockInfo(FALSE, FALSE), TRUE)
        out2 == UnitModel(4, 1, {"ALU"}, LockInfo(FALSE, FALSE), FALSE)
    IN  ProcessorDesc(<<in1, in2>>,
                      <<FuncUnit(out1, <<in1>>), FuncUnit(out2, <<in2>>)>>,
                      <<>>, <<>>)

\* "full system": one unit that is input and output at once, ALU only,
\* two instructions wide, holding both locks.
SingleUnitProc ==
    ProcessorDesc(<<>>, <<>>,
                  <<UnitModel(1, 2, {"ALU"}, LockInfo(TRUE, TRUE), FALSE)>>,
                  <<>>)

Processors ==
    <<DualCoreProc, TwoPathProc, SplitOutProc, FourStageProc,
      ThreeStageProc, MemHostProc, SingleUnitProc>>

(***************************************************************************)
(* Loading a processor description (load_proc_desc).  A description has a  *)
(* list of unit records and a data path, a list of edges, each a list of   *)
(* unit names.  The loader ingests the units, builds the edges, checks for *)
(* loops, prunes what no instruction can use, checks the locks of every    *)
(* path and classifies the units.  The width check of the pruned graph,    *)
(* which only rejects descriptions, is not part of the model, nor is the   *)
(* choice of a spelling for each capability.                               *)
(***************************************************************************)
\* Most unit records in a description with faulty records.
MaxRecords == 3

\* Most units of a description whose data path varies, and most edges of
\* its data path.
MaxUnits == 3

MaxEdges == 3

\* The names units are given, some of them equal but for case.
UnitNames ==
    <<"input", "middle 1", "middle 2", "output", "middle 3", "core 1",
      "full system", "FULL SYSTEM", "Input">>

\* ICaseString: a name is kept as spelled and compared case-folded.
lower(name) ==
    CASE name = "FULL SYSTEM" -> "full system"
      [] name = "Input" -> "input"
      [] OTHER -> name

\* A unit record of a description.
UnitRecord(name, width, capabilities, readLock, writeLock) ==
    [name |-> name, width |-> width, capabilities |-> capabilities,
     readLock |-> readLock, writeLock |-> writeLock, memoryAccess |-> FALSE]

\* The outcomes of loading.
NoResult == [kind |-> "none"]

BadWidthError(unit, width) ==
    [kind |-> "BadWidthError", unit |-> unit, width |-> width]

DupElemError(old_elem, new_elem) ==
    [kind |-> "DupElemError", old_element |-> old_elem,
     new_element |-> new_elem]

UndefElemError(element) == [kind |-> "UndefElemError", element |-> element]

BadEdgeError(edge) == [kind |-> "BadEdgeError", edge |-> edge]

NetworkXUnfeasible == [kind |-> "NetworkXUnfeasible"]

MultiLockError(segment) == [kind |-> "MultiLockError", segment |-> segment]

EmptyProcError == [kind |-> "EmptyProcError"]

DeadInputError(port) == [kind |-> "DeadInputError", port |-> port]

Loaded(processor) == [kind |-> "ProcessorDesc", processor |-> processor]

\* A variant of _chk_unit_width that lets a width of zero through.
_chk_unit_width_negative(unit) ==
    IF unit.width < 0 THEN BadWidthError(unit.name, unit.width)
    ELSE NoResult

\* Step 1 for one record: the width is validated, then the name is looked
\* up in the identity map of the units ingested so far.  The outcome is an
\* error, or no error and the units with the record added.
_chk_unit_width(unit) ==
    IF unit.width <= 0 THEN BadWidthError(unit.name, unit.width)
    ELSE NoResult

\* A variant of _chk_unit_name that compares names as spelled.
_chk_unit_name_as_spelled(units, name) ==
    IF \E i \in DOMAIN units : units[i].name = name
    THEN DupElemError(name, name)
    ELSE NoResult

_chk_unit_name(units, name) ==
    LET same == {i \in DOMAIN units : lower(units[i].name) = lower(name)}
    IN  IF same # {}
        THEN DupElemError(units[CHOOSE i \in same : TRUE].name, name)
        ELSE NoResult

_add_unit(units, unit) ==
    IF _chk_unit_width(unit) # NoResult
    THEN [error |-> _chk_unit_width(unit), units |-> units]
    ELSE IF _chk_unit_name(units, unit.name) # NoResult
    THEN [error |-> _chk_unit_name(units, unit.name), units |-> units]
    ELSE [error |-> NoResult, units |-> Append(units, unit)]

\* Step 3: each edge is resolved against the units, its names replaced by
\* the names as stored; an unknown name, then an edge not of two units, is
\* an error; an edge already there is dropped.
_get_unit_name(units, name) ==
    units[CHOOSE i \in DOMAIN units : lower(units[i].name) = lower(name)].name

_undef_elems(units, edge) ==
    {k \in DOMAIN edge :
        \A i \in DOMAIN units : lower(units[i].name) # lower(edge[k])}

RECURSIVE _add_edges(_, _, _)
_add_edges(units, links, edges) ==
    IF links = <<>> THEN [error |-> NoResult, edges |-> edges]
    ELSE LET edge == Head(links)
             undef == _undef_elems(units, edge)
         IN  IF undef # {}
             THEN [error |->
                        UndefElemError(edge[CHOOSE k \in undef :
                                            \A l \in undef : k <= l]),
                   edges |-> edges]
             ELSE IF Len(edge) # 2
             THEN [error |-> BadEdgeError(edge), edges |-> edges]
             ELSE LET found == <<_get_unit_name(units, edge[1]),
                                 _get_unit_name(units, edge[2])>>
                  IN  _add_edges(units, Tail(links),
                                 IF found \in Range(edges) THEN edges
                                 ELSE Append(edges, found))

\* The successors and the predecessors of a unit, in the order of the edges.
_successors(edges, name) ==
    LET out == SelectSeq(edges, LAMBDA e : e[1] = name)
    IN  [k \in DOMAIN out |-> out[k][2]]

_predecessors(edges, name) ==
    LET into == SelectSeq(edges, LAMBDA e : e[2] = name)
    IN  [k \in DOMAIN into |-> into[k][1]]

\* A variant of _chk_cycles that looks for self loops only.
_chk_cycles_self_only(names, edges) ==
    IF \E e \in Range(edges) : e[1] = e[2] THEN NetworkXUnfeasible
    ELSE NoResult

\* Step 4, a topological sort: units with no edge from a unit still to be
\* sorted are taken out until none is left, or none can be taken.
RECURSIVE _chk_cycles(_, _)
_chk_cycles(names, edges) ==
    LET free == {n \in names :
                    \A e \in Range(edges) : e[2] = n => e[1] \notin names}
    IN  IF names = {} THEN NoResult
        ELSE IF free = {} THEN NetworkXUnfeasible
        ELSE _chk_cycles(names \ free, edges)

\* Steps 5 and 6.  Edges between units with no capability in common go;
\* then, until none is left, the units with no capability and the units
\* other than ports that have no successor any more, with their edges.
\* The ports are the units that the data path as built gives no
\* predecessor or no successor.
_common_caps(units, edge) ==
    LET src == CHOOSE u \in Range(units) : u.name = edge[1]
        dst == CHOOSE u \in Range(units) : u.name = edge[2]
    IN  src.capabilities \cap dst.capabilities

_rm_dead_edges(units, edges) ==
    SelectSeq(edges, LAMBDA e : _common_caps(units, e) # {})

RECURSIVE _rm_dead_ends(_, _, _)
_rm_dead_ends(units, edges, terminals) ==
    LET dead == {u \in Range(units) :
                    \/ u.capabilities = {}
                    \/ /\ u.name \notin terminals
                       /\ _successors(edges, u.name) = <<>>}
        names == {u.name : u \in dead}
    IN  IF dead = {} THEN [units |-> units, edges |-> edges]
        ELSE _rm_dead_ends(
                SelectSeq(units, LAMBDA u : u \notin dead),
                SelectSeq(edges, LAMBDA e :
                    e[1] \notin names /\ e[2] \notin names),
                terminals)

_terminals(units, edges) ==
    {u.name : u \in {v \in Range(units) :
                        \/ _successors(edges, v.name) = <<>>
                        \/ _predecessors(edges, v.name) = <<>>}}

_clean_struct(units, edges) ==
    _rm_dead_ends(units, _rm_dead_edges(units, edges),
                  _terminals(units, edges))

\* Step 8: the input ports still there that had successors and have none
\* left.
_dead_inputs(units, edges, cleaned) ==
    {k \in DOMAIN cleaned.units :
        /\ _predecessors(edges, cleaned.units[k].name) = <<>>
        /\ _successors(edges, cleaned.units[k].name) # <<>>
        /\ _successors(cleaned.edges, cleaned.units[k].name) = <<>>}

\* Step 9.  The simple paths from a unit to the units with no successor.
RECURSIVE _paths_from(_, _)
_paths_from(edges, name) ==
    IF _successors(edges, name) = <<>> THEN {<<name>>}
    ELSE UNION {{<<name>> \o path : path \in _paths_from(edges, succ)} :
                    succ \in Range(_successors(edges, name))}

_paths(units, edges) ==
    UNION {_paths_from(edges, u.name) :
            u \in {v \in Range(units) :
                        _predecessors(edges, v.name) = <<>>}}

_locks_on(units, path, lock) ==
    Cardinality({k \in DOMAIN path :
        LET unit == CHOOSE u \in Range(units) : u.name = path[k]
        IN  IF lock = "readLock" THEN unit.readLock ELSE unit.writeLock})

\* A variant of _multi_lock_paths that counts read locks only.
_multi_lock_paths_read_only(units, edges) ==
    {path \in _paths(units, edges) : _locks_on(units, path, "readLock") > 1}

\* The paths with two units or more holding the same lock.
_multi_lock_paths(units, edges) ==
    {path \in _paths(units, edges) :
        \E lock \in {"readLock", "writeLock"} :
            _locks_on(units, path, lock) > 1}

\* Steps 10 to 12: the units by role, in the order of ingestion, each with
\* its predecessors in the order of the edges.
_unit_model(unit) ==
    UnitModel(unit.name, unit.width, unit.capabilities,
              LockInfo(unit.readLock, unit.writeLock), unit.memoryAccess)

_func_unit(units, edges, unit) ==
    LET preds == _predecessors(edges, unit.name)
    IN  FuncUnit(_unit_model(unit),
            [k \in DOMAIN preds |->
                _unit_model(CHOOSE u \in Range(units) : u.name = preds[k])])

_make_processor(units, edges) ==
    LET HasPred(u) == _predecessors(edges, u.name) # <<>>
        HasSucc(u) == _successors(edges, u.name) # <<>>
        in_ports == SelectSeq(units, LAMBDA u : ~HasPred(u) /\ HasSucc(u))
        in_out_ports ==
            SelectSeq(units, LAMBDA u : ~HasPred(u) /\ ~HasSucc(u))
        out_ports == SelectSeq(units, LAMBDA u : HasPred(u) /\ ~HasSucc(u))
        internal_units ==
            SelectSeq(units, LAMBDA u : HasPred(u) /\ HasSucc(u))
    IN  ProcessorDesc(
            [k \in DOMAIN in_ports |-> _unit_model(in_ports[k])],
            [k \in DOMAIN out_ports |->
                _func_unit(units, edges, out_ports[k])],
            [k \in DOMAIN in_out_ports |-> _unit_model(in_out_ports[k])],
            [k \in DOMAIN internal_units |->
                _func_unit(units, edges, internal_units[k])])

(***************************************************************************)
(* Programs: sequences of hardware instructions over two registers.        *)
(***************************************************************************)
HwInstruction(sources, destination, categ) ==
    [sources |-> sources, destination |-> destination, categ |-> categ]

Instructions ==
    {HwInstruction(<<>>, "R1", "ALU"),
     HwInstruction(<<"R1">>, "R2", "ALU"),
     HwInstruction(<<"R1">>, "R1", "ALU"),
     HwInstruction(<<"R1", "R2">>, "R2", "ALU"),
     HwInstruction(<<>>, "R2", "MEM"),
     HwInstruction(<<"R2">>, "R1", "MEM")}

Registers == {"R1", "R2"}

Programs == UNION {[1..n -> Instructions] : n \in 0..MaxProg}

(***************************************************************************)
(* BagValDict: a dictionary whose values are unsorted lists.  It is a      *)
(* function over the unit names of the processor; a key whose list is      *)
(* empty is a key the dictionary does not show.                            *)
(***************************************************************************)
BagValDict(names) == [name \in names |-> <<>>]

\* The keys with non-empty lists.
_useful_items(self) == {key \in DOMAIN self : self[key] # <<>>}

BagValDict_len(self) == Cardinality(_useful_items(self))

\* self[key]: the list of the key, an empty one for a key the dictionary
\* does not hold (_dict is a defaultdict).
BagValDict_getitem(self, key) ==
    IF key \in DOMAIN self THEN self[key] ELSE <<>>

\* A variant of sorted_vals that leaves the list as it is.
sorted_vals_as_given(val_lst) == val_lst

\* sorted(val_lst): the instruction states in ascending order of instr,
\* equal ones in the order met.  (Two states of one instruction in one
\* list have no order: StallState is a plain Enum.)
sorted_vals(val_lst) ==
    LET Rank(i) == Cardinality({j \in DOMAIN val_lst :
                        \/ val_lst[j].instr < val_lst[i].instr
                        \/ val_lst[j].instr = val_lst[i].instr /\ j < i})
    IN  [k \in DOMAIN val_lst |->
            val_lst[CHOOSE i \in DOMAIN val_lst : Rank(i) = k - 1]]

BagValDict_eq(self, other) ==
    /\ BagValDict_len(self) = Cardinality(_useful_items(other))
    /\ \A key \in _useful_items(other) :
            sorted_vals(other[key])
                = sorted_vals(BagValDict_getitem(self, key))

BagValDict_ne(self, other) == ~BagValDict_eq(self, other)

(***************************************************************************)
(* Register access queues: a queue is a sequence of accesses, each with a  *)
(* type and the list of instructions owning it.                            *)
(***************************************************************************)
Access(req_type, req_owner) ==
    [access_type |-> req_type, owners |-> <<req_owner>>]

\* A variant of builder_append in which a request joins a trailing access
\* of its own type, whatever the type.
builder_append_same_type(queue, req_type, req_owner) ==
    IF /\ queue # <<>>
       /\ queue[Len(queue)].access_type = req_type
    THEN [queue EXCEPT ![Len(queue)].owners = Append(@, req_owner)]
    ELSE Append(queue, Access(req_type, req_owner))


\* RegAccQBuilder.append: a read joins a trailing read access; anything
\* else starts a new access.
builder_append(queue, req_type, req_owner) ==
    IF /\ req_type = "READ"
       /\ queue # <<>>
       /\ queue[Len(queue)].access_type = "READ"
    THEN [queue EXCEPT ![Len(queue)].owners = Append(@, req_owner)]
    ELSE Append(queue, Access(req_type, req_owner))

\* RegAccessQueue.can_access: the head access has the type and the owner.
can_access(queue, req_type, req_owner) ==
    /\ queue # <<>>
    /\ queue[1].access_type = req_type
    /\ req_owner \in Range(queue[1].owners)

\* A variant of dequeue in which the head access goes with the first of
\* its owners to leave.
dequeue_whole_group(queue, req_owner) ==
    Tail(queue)


\* RegAccessQueue.dequeue: drop the owner from the head access, and the
\* head access once it has no owners left.
dequeue(queue, req_owner) ==
    LET owners == queue[1].owners
        pos == CHOOSE i \in DOMAIN owners :
                    /\ owners[i] = req_owner
                    /\ \A j \in 1..(i - 1) : owners[j] # req_owner
        left == DelAt(owners, pos)
    IN  IF left = <<>> THEN Tail(queue)
        ELSE [queue EXCEPT ![1].owners = left]

(***************************************************************************)
(* The register access plan                                                *)
(***************************************************************************)
RECURSIVE _add_rd_access(_, _, _)
_add_rd_access(instr, builders, registers) ==
    IF registers = <<>> THEN builders
    ELSE _add_rd_access(
            instr,
            [builders EXCEPT ![Head(registers)] =
                builder_append(@, "READ", instr)],
            Tail(registers))

_add_wr_access(instr, builder) == builder_append(builder, "WRITE", instr)

\* A variant of _add_access that registers the write before the reads.
_add_access_write_first(instr, instr_index, builders) ==
    LET written == [builders EXCEPT ![instr.destination] =
                        _add_wr_access(instr_index, @)]
    IN  _add_rd_access(instr_index, written, instr.sources)


_add_access(instr, instr_index, builders) ==
    LET read == _add_rd_access(instr_index, builders, instr.sources)
    IN  [read EXCEPT ![instr.destination] = _add_wr_access(instr_index, @)]

\* The builders after the first n instructions; instruction indices start
\* at 0.
RECURSIVE _builders(_, _)
_builders(prog, n) ==
    IF n = 0 THEN [reg \in Registers |-> <<>>]
    ELSE _add_access(prog[n], n - 1, _builders(prog, n - 1))

\* Only the registers some instruction names have a queue.
_build_acc_plan(prog) ==
    LET builders == _builders(prog, Len(prog))
    IN  [reg \in {r \in Registers : builders[r] # <<>>} |-> builders[reg]]

(***************************************************************************)
(* Hardware specification                                                  *)
(***************************************************************************)
\* The models of a sequence of functional units.
_models(func_units) == [k \in DOMAIN func_units |-> func_units[k].model]

\* HwSpec.name_unit_map
name_unit_map(processor_desc) ==
    LET models == processor_desc.in_ports \o processor_desc.in_out_ports
                    \o _models(processor_desc.out_ports
                                \o processor_desc.internal_units)
    IN  [name \in {unit.name : unit \in Range(models)} |->
            CHOOSE unit \in Range(models) : unit.name = name]

\* processor_utils.units.sorted_models: the units in name order.
sorted_models(models) ==
    LET Rank(i) == Cardinality({j \in DOMAIN models :
                        \/ models[j].name < models[i].name
                        \/ models[j].name = models[i].name /\ j < i})
    IN  [k \in DOMAIN models |->
            models[CHOOSE i \in DOMAIN models : Rank(i) = k - 1]]

(***************************************************************************)
(* Phase 1: flushing the outputs                                           *)
(***************************************************************************)
\* A variant of _space_avail that takes the unit for empty.
_space_avail_of_empty(unit, util_info) == unit.width

_space_avail(unit, util_info) == unit.width - Len(util_info[unit.name])

\* A variant of _flush_output that empties the unit.
_flush_output_all(out_instr_lst) == <<>>


\* A variant of _flush_output that flushes nothing.
_flush_output_nothing(out_instr_lst) == out_instr_lst

_flush_output(out_instr_lst) ==
    SelectSeq(out_instr_lst, LAMBDA instr : instr.stalled # "NO_STALL")

\* A variant of _get_out_ports that leaves out the units that are inputs
\* as well.
_get_out_ports_without_in_out(processor) == _models(processor.out_ports)


_get_out_ports(processor) ==
    processor.in_out_ports \o _models(processor.out_ports)

_flush_outputs(out_units, util_info) ==
    [name \in DOMAIN util_info |->
        IF \E k \in DOMAIN out_units : out_units[k].name = name
        THEN _flush_output(util_info[name])
        ELSE util_info[name]]

(***************************************************************************)
(* Phase 2: moving instructions between units.  A hosted instruction is    *)
(* named by its host and its position in the host's list.                  *)
(***************************************************************************)
_HostedInstr(host, index_in_host) ==
    [host |-> host, index_in_host |-> index_in_host]

_get_new_guests(src_unit, instructions) ==
    [k \in DOMAIN instructions |-> _HostedInstr(src_unit, instructions[k])]

\* A variant of _locate_guests that does not look at the category of the
\* instructions.
_locate_guests_any_categ(unit, prog, instr_lst) ==
    SelectSeq([i \in DOMAIN instr_lst |-> i],
              LAMBDA i : instr_lst[i].stalled # "DATA")


\* A variant of _locate_guests that does not look at the state of the
\* instructions.
_locate_guests_any_state(unit, prog, instr_lst) ==
    SelectSeq([i \in DOMAIN instr_lst |-> i],
              LAMBDA i : prog[instr_lst[i].instr + 1].categ
                                \in unit.model.capabilities)


\* more_itertools.locate over a unit's list: the positions of the
\* instructions that are not data-stalled and that the unit supports.
_locate_guests(unit, prog, instr_lst) ==
    SelectSeq([i \in DOMAIN instr_lst |-> i],
              LAMBDA i : /\ instr_lst[i].stalled # "DATA"
                         /\ prog[instr_lst[i].instr + 1].categ
                                \in unit.model.capabilities)

\* A variant of nsmallest that takes the first n candidates in the order
\* the predecessors list them.
nsmallest_unsorted(n, candidates, util_info) ==
    IF n <= 0 THEN <<>> ELSE Islice(candidates, n)


\* heapq.nsmallest(n, candidates, key=program index): the first n of the
\* candidates in a stable sort by program index.
nsmallest(n, candidates, util_info) ==
    LET Key(c) == util_info[c.host][c.index_in_host].instr
        Rank(i) == Cardinality({j \in DOMAIN candidates :
                        \/ Key(candidates[j]) < Key(candidates[i])
                        \/ Key(candidates[j]) = Key(candidates[i]) /\ j < i})
        ordered == [k \in DOMAIN candidates |->
                    candidates[CHOOSE i \in DOMAIN candidates : Rank(i) = k - 1]]
    IN  IF n <= 0 THEN <<>> ELSE Islice(ordered, n)

_get_candidates(unit, prog, util_info) ==
    LET preds == SelectSeq(unit.predecessors,
                           LAMBDA pred : pred.name \in DOMAIN util_info)
        candidates == [k \in DOMAIN preds |->
                        _get_new_guests(preds[k].name, _locate_guests(
                            unit, prog, util_info[preds[k].name]))]
    IN  nsmallest(_space_avail(unit.model, util_info), chain(candidates),
                  util_info)

\* The candidate, unstalled, is appended to the unit's list; its host still
\* lists it.
_mov_candidate(candidate, unit, util_info) ==
    LET moved == InstrState(
            util_info[candidate.host][candidate.index_in_host].instr,
            "NO_STALL")
    IN  [util_info EXCEPT
            ![candidate.host][candidate.index_in_host] = moved,
            ![unit.name] = Append(@, moved)]

\* A variant of the loop of _mov_candidates that does not stop after a
\* move into a memory access unit.
RECURSIVE _mov_candidates_nonstop(_, _, _, _)
_mov_candidates_nonstop(k, candidates, unit, util_info) ==
    IF k > Len(candidates)
    THEN [moved |-> Len(candidates),
          mem_used |-> unit.mem_access /\ candidates # <<>>,
          util_info |-> util_info]
    ELSE _mov_candidates_nonstop(
            k + 1, candidates, unit,
            _mov_candidate(candidates[k], unit, util_info))

\* The loop of _mov_candidates from its k-th candidate on: a unit that
\* accesses memory takes one candidate and returns.
RECURSIVE _mov_candidates_from(_, _, _, _)
_mov_candidates_from(k, candidates, unit, util_info) ==
    IF k > Len(candidates)
    THEN [moved |-> Len(candidates), mem_used |-> FALSE,
          util_info |-> util_info]
    ELSE LET next_util == _mov_candidate(candidates[k], unit, util_info)
         IN  IF unit.mem_access
             THEN [moved |-> k, mem_used |-> TRUE, util_info |-> next_util]
             ELSE _mov_candidates_from(k + 1, candidates, unit, next_util)

_mov_candidates(candidates, unit, util_info) ==
    _mov_candidates_from(1, candidates, unit, util_info)

RECURSIVE _clr_src_units(_, _)
_clr_src_units(instructions, util_info) ==
    IF instructions = <<>> THEN util_info
    ELSE _clr_src_units(
            Tail(instructions),
            [util_info EXCEPT ![Head(instructions).host] =
                DelAt(@, Head(instructions).index_in_host)])

\* A variant of _sorted_by_index_desc that leaves the order as it is.
_sorted_by_index_unsorted(instructions) == instructions

\* sorted(instructions, key=index_in_host, reverse=True)
_sorted_by_index_desc(instructions) ==
    LET Rank(i) == Cardinality({j \in DOMAIN instructions :
                        \/ instructions[j].index_in_host
                                > instructions[i].index_in_host
                        \/ /\ instructions[j].index_in_host
                                = instructions[i].index_in_host
                           /\ j < i})
    IN  [k \in DOMAIN instructions |->
            instructions[CHOOSE i \in DOMAIN instructions : Rank(i) = k - 1]]

_fill_unit(unit, prog, util_info) ==
    LET candidates == _get_candidates(unit, prog, util_info)
        mov_res == _mov_candidates(candidates, unit.model, util_info)
    IN  [mem_used |-> mov_res.mem_used,
         util_info |-> _clr_src_units(
            _sorted_by_index_desc(Islice(candidates, mov_res.moved)),
            mov_res.util_info)]

\* A variant of _mov_flight that fills the destination whatever the
\* memory flag.
_mov_flight_unarbitrated(cur_dst, prog, busy, util_info) ==
    LET fill_res == _fill_unit(cur_dst, prog, util_info)
    IN  [mem_busy |-> busy \/ fill_res.mem_used,
         util_info |-> fill_res.util_info]

\* One pass of the loop of _mov_flights, for the destination cur_dst.
_mov_flight(cur_dst, prog, busy, util_info) ==
    IF ~busy \/ ~cur_dst.model.mem_access
    THEN LET fill_res == _fill_unit(cur_dst, prog, util_info)
         IN  [mem_busy |-> busy \/ fill_res.mem_used,
              util_info |-> fill_res.util_info]
    ELSE [mem_busy |-> busy, util_info |-> util_info]

\* The loop of _mov_flights from the k-th destination on.
RECURSIVE _mov_flights_from(_, _, _, _, _)
_mov_flights_from(k, dst_units, prog, busy, util_info) ==
    IF k > Len(dst_units)
    THEN [mem_busy |-> busy, util_info |-> util_info]
    ELSE LET res == _mov_flight(dst_units[k], prog, busy, util_info)
         IN  _mov_flights_from(k + 1, dst_units, prog, res.mem_busy,
                               res.util_info)

_mov_flights(dst_units, prog, util_info) ==
    _mov_flights_from(1, dst_units, prog, FALSE, util_info)

\* A variant of _dst_units that fills the internal units before the
\* outputs.
_dst_units_internal_first(processor) ==
    processor.internal_units \o processor.out_ports

\* A variant of _dst_units that fills the internal units before the
\* outputs, each before its successors.
_dst_units_inputs_first(processor) ==
    LET dst == processor.out_ports \o processor.internal_units
    IN  [k \in DOMAIN dst |-> dst[Len(dst) + 1 - k]]

\* The destinations of Phase 2, in the order they are filled.
_dst_units(processor) == processor.out_ports \o processor.internal_units

(***************************************************************************)
(* Phase 3: fetching new instructions                                      *)
(***************************************************************************)
\* Each capability of the inputs with the inputs supporting it, in the
\* order given.
_build_cap_map(inputs) ==
    [cap \in UNION {inputs[k].capabilities : k \in DOMAIN inputs} |->
        SelectSeq(inputs, LAMBDA unit : cap \in unit.capabilities)]

\* A variant of _cap_units that hands an instruction of a category no
\* input supports to every input.
_cap_units_any(cap_unit_map, categ) ==
    IF categ \in DOMAIN cap_unit_map THEN cap_unit_map[categ]
    ELSE cap_unit_map[CHOOSE cap \in DOMAIN cap_unit_map : TRUE]


\* cap_unit_map.get(categ, [])
_cap_units(cap_unit_map, categ) ==
    IF categ \in DOMAIN cap_unit_map THEN cap_unit_map[categ] ELSE <<>>

_issue_instr(name, mem_access, issue, mem_used, util_info) ==
    [entered |-> issue + 1, accepted |-> TRUE,
     mem_used |-> mem_used \/ mem_access,
     util_info |-> [util_info EXCEPT
                        ![name] = Append(@, InstrState(issue, "NO_STALL"))]]

\* A variant of _accept_instr that passes over an instruction no input
\* takes.
_accept_instr_skip(issue, inputs, util_info, mem_used) ==
    LET acceptors == SelectSeq(inputs, LAMBDA unit :
                        /\ ~(mem_used /\ unit.mem_access)
                        /\ _space_avail(unit, util_info) # 0)
    IN  IF acceptors # <<>>
        THEN _issue_instr(acceptors[1].name, acceptors[1].mem_access, issue,
                          mem_used, util_info)
        ELSE [entered |-> issue + 1, accepted |-> TRUE,
              mem_used |-> mem_used, util_info |-> util_info]


\* The first input with memory and space available takes the instruction.
_accept_instr(issue, inputs, util_info, mem_used) ==
    LET acceptors == SelectSeq(inputs, LAMBDA unit :
                        /\ ~(mem_used /\ unit.mem_access)
                        /\ _space_avail(unit, util_info) # 0)
    IN  IF acceptors # <<>>
        THEN _issue_instr(acceptors[1].name, acceptors[1].mem_access, issue,
                          mem_used, util_info)
        ELSE [entered |-> issue, accepted |-> FALSE, mem_used |-> mem_used,
              util_info |-> util_info]

\* The loop of _fill_inputs.
RECURSIVE _fill_inputs_loop(_, _, _, _, _, _)
_fill_inputs_loop(cap_unit_map, prog, util_info, mem_used, issue, ok) ==
    IF issue < Len(prog) /\ ok
    THEN LET res == _accept_instr(
                issue, _cap_units(cap_unit_map, prog[issue + 1].categ),
                util_info, mem_used)
         IN  _fill_inputs_loop(cap_unit_map, prog, res.util_info,
                               res.mem_used, res.entered, res.accepted)
    ELSE [entered |-> issue, util_info |-> util_info]

_fill_inputs(cap_unit_map, prog, util_info, busy, issue) ==
    _fill_inputs_loop(cap_unit_map, prog, util_info, busy, issue, TRUE)

\* A variant of _in_cap_map that keeps the inputs in the order the
\* processor lists them.
_in_cap_map_as_listed(processor) ==
    _build_cap_map(processor.in_out_ports \o processor.in_ports)


\* The capability map _fill_cp_util hands to _fill_inputs.
_in_cap_map(processor) ==
    _build_cap_map(sorted_models(processor.in_out_ports
                                    \o processor.in_ports))

_fill_cp_util(processor, prog, util_info, issue) ==
    LET flushed == _flush_outputs(_get_out_ports(processor), util_info)
        mov_res == _mov_flights(_dst_units(processor), prog, flushed)
    IN  _fill_inputs(_in_cap_map(processor), prog, mov_res.util_info,
                     mov_res.mem_busy, issue)

(***************************************************************************)
(* Phase 4: hazards                                                        *)
(***************************************************************************)
\* A variant of _chk_avail_regs that records the registers of a locked
\* unit without looking at the answer of the queues.
_chk_avail_regs_unchecked(queues, lock, new_regs, req_type, req_owner) ==
    IF ~lock THEN [avail |-> TRUE, regs |-> <<>>]
    ELSE [avail |-> TRUE, regs |-> new_regs]


\* A variant of _chk_avail_regs that checks the registers whether the unit
\* holds the lock or not.
_chk_avail_regs_any_lock(queues, lock, new_regs, req_type, req_owner) ==
    IF \A k \in DOMAIN new_regs :
            can_access(queues[new_regs[k]], req_type, req_owner)
    THEN [avail |-> TRUE, regs |-> new_regs]
    ELSE [avail |-> FALSE, regs |-> <<>>]


\* A lock the unit does not hold checks nothing; a held lock needs every
\* register's queue to grant the access.
_chk_avail_regs(queues, lock, new_regs, req_type, req_owner) ==
    IF ~lock THEN [avail |-> TRUE, regs |-> <<>>]
    ELSE IF \A k \in DOMAIN new_regs :
                can_access(queues[new_regs[k]], req_type, req_owner)
         THEN [avail |-> TRUE, regs |-> new_regs]
         ELSE [avail |-> FALSE, regs |-> <<>>]

\* The write check is made only when the read check passes.
_regs_avail(unit_locks, instr_index, instr, queues) ==
    LET rd == _chk_avail_regs(queues, unit_locks.rd_lock, instr.sources,
                              "READ", instr_index)
        wr == _chk_avail_regs(queues, unit_locks.wr_lock,
                              <<instr.destination>>, "WRITE", instr_index)
    IN  IF rd.avail /\ wr.avail
        THEN [avail |-> TRUE, regs |-> rd.regs \o wr.regs]
        ELSE [avail |-> FALSE, regs |-> <<>>]

\* A variant of _regs_loaded that takes the instruction as loaded when the
\* unit held it before, in any state.
_regs_loaded_any_state(old_unit_util, instr) ==
    \E k \in DOMAIN old_unit_util : old_unit_util[k].instr = instr


_regs_loaded(old_unit_util, instr) ==
    \E k \in DOMAIN old_unit_util :
        /\ old_unit_util[k].instr = instr
        /\ old_unit_util[k].stalled # "DATA"

RECURSIVE _update_clears(_, _, _)
_update_clears(reqs_to_clear, regs, instr) ==
    IF regs = <<>> THEN reqs_to_clear
    ELSE _update_clears(
            [reqs_to_clear EXCEPT ![Head(regs)] = Append(@, instr)],
            Tail(regs), instr)

\* A variant of _chk_data_stall that unstalls the instruction without
\* recording its granted requests for clearing.
_chk_data_stall_uncleared(unit_locks, instr_index, instr, queues, reqs_to_clear) ==
    LET avail_state == _regs_avail(unit_locks, instr_index, instr, queues)
    IN  [stalled |-> IF avail_state.avail THEN "NO_STALL" ELSE "DATA",
         reqs_to_clear |-> reqs_to_clear]


_chk_data_stall(unit_locks, instr_index, instr, queues, reqs_to_clear) ==
    LET avail_state == _regs_avail(unit_locks, instr_index, instr, queues)
    IN  IF ~avail_state.avail
        THEN [stalled |-> "DATA", reqs_to_clear |-> reqs_to_clear]
        ELSE [stalled |-> "NO_STALL",
              reqs_to_clear |-> _update_clears(
                    reqs_to_clear, avail_state.regs, instr_index)]

\* The loop of _stall_unit from the k-th instruction of the unit on.
RECURSIVE _stall_unit_from(_, _, _, _, _, _, _)
_stall_unit_from(k, unit_locks, old_unit_util, new_unit_util, prog, queues, reqs_to_clear) ==
    IF k > Len(new_unit_util)
    THEN [new_util |-> new_unit_util, reqs_to_clear |-> reqs_to_clear]
    ELSE LET instr == new_unit_util[k].instr
             res == IF _regs_loaded(old_unit_util, instr)
                    THEN [stalled |-> "STRUCTURAL",
                          reqs_to_clear |-> reqs_to_clear]
                    ELSE _chk_data_stall(unit_locks, instr, prog[instr + 1],
                                         queues, reqs_to_clear)
         IN  _stall_unit_from(
                k + 1, unit_locks, old_unit_util,
                [new_unit_util EXCEPT ![k].stalled = res.stalled], prog,
                queues, res.reqs_to_clear)

\* A variant of _stall_unit that checks the registers of every instruction
\* anew, as if none had been in the unit before.
_stall_unit_recheck(unit_locks, old_unit_util, new_unit_util, prog, queues, reqs_to_clear) ==
    _stall_unit_from(1, unit_locks, <<>>, new_unit_util, prog, queues,
                     reqs_to_clear)

_stall_unit(unit_locks, old_unit_util, new_unit_util, prog, queues, reqs_to_clear) ==
    _stall_unit_from(1, unit_locks, old_unit_util, new_unit_util, prog,
                     queues, reqs_to_clear)

\* The second loop of _chk_hazards for one register.
RECURSIVE _clear_reqs(_, _)
_clear_reqs(queue, req_lst) ==
    IF req_lst = <<>> THEN queue
    ELSE _clear_reqs(dequeue(queue, Head(req_lst)), Tail(req_lst))

\* A variant of _stall_units_from in which each unit is checked against
\* the queues without the requests the units before it have cleared.
RECURSIVE _stall_units_eager(_, _, _, _, _, _, _)
_stall_units_eager(k, old, new_util, units, prog, queues, reqs_to_clear) ==
    IF k \notin DOMAIN new_util
    THEN [util_info |-> new_util, reqs_to_clear |-> reqs_to_clear]
    ELSE LET now == [reg \in DOMAIN queues |->
                        _clear_reqs(queues[reg], reqs_to_clear[reg])]
             res == _stall_unit(units[k].lock_info, old[k], new_util[k],
                                prog, now, reqs_to_clear)
         IN  _stall_units_eager(
                k + 1, old, [new_util EXCEPT ![k] = res.new_util], units,
                prog, queues, res.reqs_to_clear)


\* The first loop of _chk_hazards over the units from name k on.
RECURSIVE _stall_units_from(_, _, _, _, _, _, _)
_stall_units_from(k, old, new_util, units, prog, queues, reqs_to_clear) ==
    IF k \notin DOMAIN new_util
    THEN [util_info |-> new_util, reqs_to_clear |-> reqs_to_clear]
    ELSE LET res == _stall_unit(units[k].lock_info, old[k], new_util[k],
                                prog, queues, reqs_to_clear)
         IN  _stall_units_from(
                k + 1, old, [new_util EXCEPT ![k] = res.new_util], units,
                prog, queues, res.reqs_to_clear)

_chk_hazards(old, new_util, units, prog, queues) ==
    LET res == _stall_units_from(1, old, new_util, units, prog, queues,
                                 [reg \in Registers |-> <<>>])
    IN  [util_info |-> res.util_info,
         acc_queues |-> [reg \in DOMAIN queues |->
                            _clear_reqs(queues[reg], res.reqs_to_clear[reg])]]

(***************************************************************************)
(* Phase 5: the full stall check and the output count                      *)
(***************************************************************************)
\* A variant of _chk_full_stall that compares the places of the
\* instructions and not their states.
_chk_full_stall_by_place(old, new_util) ==
    \A name \in DOMAIN new_util :
        {new_util[name][k].instr : k \in DOMAIN new_util[name]}
            = {old[name][k].instr : k \in DOMAIN old[name]}


\* TRUE when _chk_full_stall raises StallError.
_chk_full_stall(old, new_util) == BagValDict_eq(new_util, old)

\* A variant of _calc_unstalled that counts every instruction.
_calc_unstalled_all(instructions) == Len(instructions)

_calc_unstalled(instructions) ==
    Cardinality({k \in DOMAIN instructions :
                    instructions[k].stalled = "NO_STALL"})

RECURSIVE _count_outputs(_, _)
_count_outputs(outputs, util_info) ==
    IF outputs = <<>> THEN 0
    ELSE _calc_unstalled(util_info[Head(outputs).name])
            + _count_outputs(Tail(outputs), util_info)

(***************************************************************************)
(* One clock cycle and the whole run, as functions of the program and the  *)
(* processor.                                                              *)
(***************************************************************************)
\* The utilization of the previous clock pulse.
_old_util(processor, tbl) ==
    IF tbl # <<>> THEN tbl[Len(tbl)]
    ELSE BagValDict(DOMAIN name_unit_map(processor))

\* A variant of deepcopy that copies the dictionary only: the copy shares
\* with the original the lists of the original's keys.
deepcopy_keys_only(util_info) ==
    [util_info |-> util_info,
     shared |-> {name \in DOMAIN util_info : util_info[name] # <<>>}]

\* copy.deepcopy of a utilization: the same keys, lists and instruction
\* states in new objects, none of them shared with the original.
deepcopy(util_info) == [util_info |-> util_info, shared |-> {}]

\* The table once the working utilization has been changed in place: the
\* last entry shows the change in the lists it shares with it.
_written_through(tbl, shared, util_info) ==
    IF tbl = <<>> THEN tbl
    ELSE [tbl EXCEPT ![Len(tbl)] =
            [name \in DOMAIN @ |->
                IF name \in shared THEN util_info[name] ELSE @[name]]]

\* _run_cycle: the record of the run after the cycle; raised tells that
\* the cycle raised StallError.
_run_cycle(prog, queues, processor, tbl, issue_rec) ==
    LET old == _old_util(processor, tbl)
        fill_res == _fill_cp_util(processor, prog, old, issue_rec.entered)
        haz_res == _chk_hazards(old, fill_res.util_info,
                                name_unit_map(processor), prog, queues)
    IN  IF _chk_full_stall(old, haz_res.util_info)
        THEN [raised |-> TRUE, util_tbl |-> tbl,
              acc_queues |-> haz_res.acc_queues,
              issue_rec |-> [entered |-> fill_res.entered,
                             exited |-> issue_rec.exited]]
        ELSE [raised |-> FALSE,
              util_tbl |-> Append(tbl, haz_res.util_info),
              acc_queues |-> haz_res.acc_queues,
              issue_rec |->
                [entered |-> fill_res.entered,
                 exited |-> issue_rec.exited + _count_outputs(
                    _get_out_ports(processor), haz_res.util_info)]]

\* The loop of simulate.
RECURSIVE _simulate_loop(_, _, _, _, _)
_simulate_loop(prog, queues, processor, tbl, issue_rec) ==
    IF issue_rec.entered < Len(prog) \/ issue_rec.exited < issue_rec.entered
    THEN LET res == _run_cycle(prog, queues, processor, tbl, issue_rec)
         IN  IF res.raised
             THEN [raised |-> TRUE, util_tbl |-> res.util_tbl]
             ELSE _simulate_loop(prog, res.acc_queues, processor,
                                 res.util_tbl, res.issue_rec)
    ELSE [raised |-> FALSE, util_tbl |-> tbl]

\* simulate: the pipeline diagram, or the state StallError carries.
simulate(prog, processor) ==
    _simulate_loop(prog, _build_acc_plan(prog), processor, <<>>,
                   [entered |-> 0, exited |-> 0])

(***************************************************************************)
(* The run as a state machine: simulate's loop, a cycle at a time, each    *)
(* cycle a phase at a time.                                                *)
(***************************************************************************)
Desc == Processors[hw_info]

Units == name_unit_map(Desc)

\* A variant of the condition of simulate's loop that stops once the
\* program has been fetched.
InProgress_fetching == entered < Len(program)

\* The condition of simulate's loop.
InProgress == entered < Len(program) \/ exited < entered

Init ==
    /\ hw_info \in DOMAIN Processors
    /\ program \in Programs
    /\ util_tbl = <<>>
    /\ acc_queues = _build_acc_plan(program)
    /\ entered = 0
    /\ exited = 0
    /\ old_util = BagValDict(DOMAIN name_unit_map(Processors[hw_info]))
    /\ cp_util = old_util
    /\ cp_shared = {}
    /\ mem_busy = FALSE
    /\ dst_idx = 1
    /\ accepted = TRUE
    /\ pc = "simulate"
    /\ processor_state = <<>>
    /\ raw_desc = [units |-> <<>>, dataPath |-> <<>>]
    /\ load_pc = "idle"
    /\ flow_graph = [units |-> <<>>, edges |-> <<>>]
    /\ load_result = NoResult
    /\ bag_self = BagValDict({})
    /\ bag_other = BagValDict({})
    /\ bag_result = NoResult

\* _run_cycle up to the end of Phase 1: the previous utilization is copied
\* and the outputs are flushed.
FlushOutputs ==
    /\ pc = "simulate"
    /\ InProgress
    /\ old_util' = _old_util(Desc, util_tbl)
    /\ cp_shared' = deepcopy(old_util').shared
    /\ cp_util' = _flush_outputs(_get_out_ports(Desc),
                                 deepcopy(old_util').util_info)
    /\ util_tbl' = _written_through(util_tbl, cp_shared', cp_util')
    /\ mem_busy' = FALSE
    /\ dst_idx' = 1
    /\ accepted' = TRUE
    /\ pc' = IF _dst_units(Desc) = <<>> THEN "fill_inputs" ELSE "mov_flights"
    /\ UNCHANGED <<load_vars, bag_vars, hw_info, program,
                   acc_queues, entered, exited,
                   processor_state>>

\* simulate returns the utilization table.
Return ==
    /\ pc = "simulate"
    /\ ~InProgress
    /\ pc' = "returned"
    /\ UNCHANGED <<load_vars, bag_vars, hw_info, program,
                   util_tbl, acc_queues, entered, exited,
                   old_util, cp_util, cp_shared, mem_busy, dst_idx,
                   accepted, processor_state>>

\* Phase 2, one destination unit.
MovFlight ==
    /\ pc = "mov_flights"
    /\ LET res == _mov_flight(_dst_units(Desc)[dst_idx], program, mem_busy,
                              cp_util)
       IN  /\ cp_util' = res.util_info
           /\ mem_busy' = res.mem_busy
    /\ dst_idx' = dst_idx + 1
    /\ pc' = IF dst_idx = Len(_dst_units(Desc)) THEN "fill_inputs"
             ELSE "mov_flights"
    /\ util_tbl' = _written_through(util_tbl, cp_shared, cp_util')
    /\ UNCHANGED <<load_vars, bag_vars, hw_info, program,
                   acc_queues, entered, exited,
                   old_util, cp_shared, accepted, processor_state>>

\* A variant of AcceptInstr that issues the instruction to any of the
\* inputs that can take it.
AcceptInstr_any_input ==
    /\ pc = "fill_inputs"
    /\ entered < Len(program) /\ accepted
    /\ LET inputs == _cap_units(_in_cap_map(Desc),
                                program[entered + 1].categ)
           takers == {k \in DOMAIN inputs :
                        _accept_instr(entered, <<inputs[k]>>, cp_util,
                                      mem_busy).accepted}
       IN  \E k \in IF takers = {} THEN {0} ELSE takers :
            LET res == _accept_instr(
                        entered,
                        IF k = 0 THEN inputs ELSE <<inputs[k]>>,
                        cp_util, mem_busy)
            IN  /\ cp_util' = res.util_info
                /\ entered' = res.entered
                /\ accepted' = res.accepted
                /\ mem_busy' = res.mem_used
    /\ util_tbl' = _written_through(util_tbl, cp_shared, cp_util')
    /\ UNCHANGED <<load_vars, bag_vars, hw_info, program,
                   acc_queues, exited, old_util, cp_shared,
                   dst_idx, pc, processor_state>>


\* Phase 3, one instruction.
AcceptInstr ==
    /\ pc = "fill_inputs"
    /\ entered < Len(program) /\ accepted
    /\ LET res == _accept_instr(
                entered,
                _cap_units(_in_cap_map(Desc), program[entered + 1].categ),
                cp_util, mem_busy)
       IN  /\ cp_util' = res.util_info
           /\ entered' = res.entered
           /\ accepted' = res.accepted
           /\ mem_busy' = res.mem_used
    /\ util_tbl' = _written_through(util_tbl, cp_shared, cp_util')
    /\ UNCHANGED <<load_vars, bag_vars, hw_info, program,
                   acc_queues, exited, old_util, cp_shared,
                   dst_idx, pc, processor_state>>

\* Phase 4, once fetching has stopped.
ChkHazards ==
    /\ pc = "fill_inputs"
    /\ ~(entered < Len(program) /\ accepted)
    /\ LET res == _chk_hazards(old_util, cp_util, Units, program, acc_queues)
       IN  /\ cp_util' = res.util_info
           /\ acc_queues' = res.acc_queues
    /\ pc' = "chk_full_stall"
    /\ util_tbl' = _written_through(util_tbl, cp_shared, cp_util')
    /\ UNCHANGED <<load_vars, bag_vars, hw_info, program,
                   entered, exited, old_util, cp_shared,
                   mem_busy, dst_idx, accepted, processor_state>>

\* A variant of RaiseStallError that appends the entry before checking for
\* the stall.
RaiseStallError_after_append ==
    /\ pc = "chk_full_stall"
    /\ _chk_full_stall(old_util, cp_util)
    /\ util_tbl' = Append(util_tbl, cp_util)
    /\ processor_state' = util_tbl'
    /\ pc' = "stalled"
    /\ UNCHANGED <<load_vars, bag_vars, hw_info, program,
                   acc_queues, entered, exited,
                   old_util, cp_util, cp_shared, mem_busy, dst_idx,
                   accepted>>


\* A variant of RaiseStallError that finds the stall and returns without
\* raising.
RaiseStallError_silent ==
    /\ pc = "chk_full_stall"
    /\ _chk_full_stall(old_util, cp_util)
    /\ pc' = "simulate"
    /\ UNCHANGED <<load_vars, bag_vars, hw_info, program,
                   util_tbl, acc_queues, entered, exited,
                   old_util, cp_util, cp_shared, mem_busy, dst_idx,
                   accepted, processor_state>>

\* Phase 5, no progress: StallError carries the utilization table.
RaiseStallError ==
    /\ pc = "chk_full_stall"
    /\ _chk_full_stall(old_util, cp_util)
    /\ processor_state' = util_tbl
    /\ pc' = "stalled"
    /\ UNCHANGED <<load_vars, bag_vars, hw_info, program,
                   util_tbl, acc_queues, entered, exited,
                   old_util, cp_util, cp_shared, mem_busy, dst_idx,
                   accepted>>

\* Phase 5, progress: the outputs are counted and the entry is appended.
Commit ==
    /\ pc = "chk_full_stall"
    /\ ~_chk_full_stall(old_util, cp_util)
    /\ exited' = exited + _count_outputs(_get_out_ports(Desc), cp_util)
    /\ util_tbl' = Append(util_tbl, cp_util)
    \* The entry appended is the object cp_util itself.
    /\ cp_shared' = DOMAIN cp_util
    /\ pc' = "simulate"
    /\ UNCHANGED <<load_vars, bag_vars, hw_info, program,
                   acc_queues, entered, old_util, cp_util,
                   mem_busy, dst_idx, accepted, processor_state>>

Next ==
    \/ FlushOutputs
    \/ Return
    \/ MovFlight
    \/ AcceptInstr
    \/ ChkHazards
    \/ RaiseStallError
    \/ Commit

Spec == Init /\ [][Next]_vars

(***************************************************************************)
(* The loader as a state machine                                           *)
(***************************************************************************)
sim_vars == <<hw_info, program, util_tbl, acc_queues, entered, exited,
              old_util, cp_util, cp_shared, mem_busy, dst_idx, accepted, pc,
              processor_state>>

\* The sequences of at most n elements of a set.
SeqsUpTo(S, n) == UNION {[1..k -> S] : k \in 0..n}

\* The first units of UnitNames, as many as there are names for.
FirstNames(n) ==
    SubSeq(UnitNames, 1, IF n < Len(UnitNames) THEN n ELSE Len(UnitNames))

\* An ALU unit one instruction wide.
AluRecord(name, readLock, writeLock) ==
    UnitRecord(name, 1, {"ALU"}, readLock, writeLock)

\* The edges of a set of pairs of names, as a list in the order of
\* AllEdges.
EdgeList(all_edges, picked) ==
    SelectSeq(all_edges, LAMBDA e : e \in picked)

\* The pairs of positions of a list of names, as a list; forward pairs
\* lead from a name to a later one.
AllEdges(names) ==
    LET n == Len(names)
    IN  [k \in 1..(n * n) |->
            <<names[((k - 1) \div n) + 1], names[((k - 1) % n) + 1]>>]

ForwardEdges(names) ==
    LET n == Len(names)
    IN  SelectSeq([k \in 1..(n * n) |->
                        <<((k - 1) \div n) + 1, ((k - 1) % n) + 1>>],
                  LAMBDA e : e[1] < e[2])

NamedEdges(names, edges) ==
    [k \in DOMAIN edges |-> <<names[edges[k][1]], names[edges[k][2]]>>]

FewOf(S) == {T \in SUBSET S : Cardinality(T) <= MaxEdges}

\* Descriptions with faulty records: up to MaxRecords units of width 0
\* or 1, or -1 for one of them, with names some of which differ but in
\* case, and a data path that is empty, has an edge, an edge twice or an
\* edge of one unit.
FaultyDescs ==
    LET records == {AluRecord(name, FALSE, FALSE) : name \in
                        {"full system", "FULL SYSTEM", "input"}}
        sized == {[rec EXCEPT !.width = width] :
                        rec \in records, width \in {0, 1}}
                 \cup {[AluRecord("FULL SYSTEM", FALSE, FALSE)
                            EXCEPT !.width = -1]}
    IN  {[units |-> units, dataPath |-> path] :
            units \in SeqsUpTo(sized, MaxRecords),
            path \in {<<>>, <<<<"input", "full system">>>>,
                      <<<<"input", "full system">>,
                        <<"Input", "FULL SYSTEM">>>>,
                      <<<<"input">>>>}}

\* Descriptions of MaxUnits sound ALU units without locks, supplied in
\* the order of UnitNames or in the opposite order, with every data path
\* of at most MaxEdges edges, loops included.
GraphDescs ==
    LET names == FirstNames(MaxUnits)
        n == Len(names)
        units == [k \in 1..n |-> AluRecord(names[k], FALSE, FALSE)]
        all_edges == AllEdges(names)
    IN  {[units |-> order, dataPath |-> EdgeList(all_edges, picked)] :
            order \in {units, [k \in 1..n |-> units[n + 1 - k]]},
            picked \in FewOf(Range(all_edges))}

\* Descriptions of MaxUnits sound ALU units, each with any locks, with
\* every data path of at most MaxEdges forward edges.
LockDescs ==
    LET names == FirstNames(MaxUnits)
        n == Len(names)
        forward == NamedEdges(names, ForwardEdges(names))
    IN  {[units |-> [k \in 1..n |->
                        AluRecord(names[k], rd[k], wr[k])],
          dataPath |-> EdgeList(forward, picked)] :
            rd \in [1..n -> BOOLEAN], wr \in [1..n -> BOOLEAN],
            picked \in FewOf(Range(forward))}

\* Descriptions of three sound units, each with any capabilities of ALU
\* and MEM, all with a read lock or all without, with every data path of
\* forward edges.
CapDescs ==
    LET names == FirstNames(3)
        forward == NamedEdges(names, ForwardEdges(names))
    IN  {[units |-> [k \in 1..3 |->
                        UnitRecord(names[k], 1, caps[k], locked, FALSE)],
          dataPath |-> EdgeList(forward, picked)] :
            caps \in [1..3 -> SUBSET {"ALU", "MEM"}],
            locked \in BOOLEAN,
            picked \in SUBSET Range(forward)}

\* Descriptions of a pipeline of five sound ALU units without locks,
\* three of them between the input and the output in a chain or with the
\* first feeding the other two, with or without shortcuts, the records
\* in every order.
PipeDescs ==
    LET names == <<"input", "middle 1", "middle 2", "middle 3", "output">>
        units == [k \in 1..5 |-> AluRecord(names[k], FALSE, FALSE)]
        chain_path == <<<<"input", "middle 1">>, <<"middle 1", "middle 2">>,
                        <<"middle 2", "middle 3">>, <<"middle 3", "output">>>>
        fork_path == <<<<"input", "middle 1">>, <<"middle 1", "middle 2">>,
                       <<"middle 1", "middle 3">>, <<"middle 2", "output">>,
                       <<"middle 3", "output">>>>
        shortcuts == <<<<"input", "middle 3">>, <<"middle 1", "output">>,
                       <<"input", "middle 2">>>>
    IN  {[units |-> order,
          dataPath |-> path \o EdgeList(shortcuts, picked)] :
            order \in {[k \in 1..5 |-> units[p[k]]] :
                        p \in {q \in [1..5 -> 1..5] :
                            \A i, j \in 1..5 : q[i] = q[j] => i = j}},
            path \in {chain_path, fork_path},
            picked \in SUBSET Range(shortcuts)}

RawDescs ==
    FaultyDescs \cup GraphDescs \cup LockDescs \cup CapDescs \cup PipeDescs

LoadInit ==
    /\ hw_info = 1
    /\ program = <<>>
    /\ util_tbl = <<>>
    /\ acc_queues = _build_acc_plan(program)
    /\ entered = 0
    /\ exited = 0
    /\ old_util = BagValDict(DOMAIN name_unit_map(Processors[hw_info]))
    /\ cp_util = old_util
    /\ cp_shared = {}
    /\ mem_busy = FALSE
    /\ dst_idx = 1
    /\ accepted = TRUE
    /\ pc = "simulate"
    /\ processor_state = <<>>
    /\ raw_desc \in RawDescs
    /\ load_pc = "create_graph"
    /\ flow_graph = [units |-> <<>>, edges |-> <<>>]
    /\ load_result = NoResult
    /\ bag_self = BagValDict({})
    /\ bag_other = BagValDict({})
    /\ bag_result = NoResult

\* Step 1, one unit record.
IngestUnit ==
    /\ load_pc = "create_graph"
    /\ Len(flow_graph.units) < Len(raw_desc.units)
    /\ LET added == _add_unit(flow_graph.units,
                        raw_desc.units[Len(flow_graph.units) + 1])
       IN  /\ flow_graph' = [flow_graph EXCEPT !.units = added.units]
           /\ load_result' = added.error
           /\ load_pc' = IF added.error = NoResult THEN "create_graph"
                         ELSE "failed"
    /\ UNCHANGED <<sim_vars, bag_vars, raw_desc>>

\* Step 3, once the units are ingested.
BuildEdges ==
    /\ load_pc = "create_graph"
    /\ Len(flow_graph.units) = Len(raw_desc.units)
    /\ LET added == _add_edges(flow_graph.units, raw_desc.dataPath, <<>>)
       IN  /\ flow_graph' = [flow_graph EXCEPT !.edges = added.edges]
           /\ load_result' = added.error
           /\ load_pc' = IF added.error = NoResult THEN "chk_cycles"
                         ELSE "failed"
    /\ UNCHANGED <<sim_vars, bag_vars, raw_desc>>

\* Step 4.
CycleCheck ==
    /\ load_pc = "chk_cycles"
    /\ load_result' = _chk_cycles({u.name : u \in Range(flow_graph.units)},
                                  flow_graph.edges)
    /\ load_pc' = IF load_result' = NoResult THEN "clean_struct"
                  ELSE "failed"
    /\ UNCHANGED <<sim_vars, bag_vars, raw_desc, flow_graph>>

\* Steps 5, 6 and 8.
Prune ==
    /\ load_pc = "clean_struct"
    /\ LET cleaned == _clean_struct(flow_graph.units, flow_graph.edges)
           dead == _dead_inputs(flow_graph.units, flow_graph.edges, cleaned)
       IN  /\ flow_graph' = cleaned
           /\ IF dead = {}
              THEN /\ load_pc' = "chk_locks"
                   /\ UNCHANGED load_result
              ELSE /\ load_pc' = "failed"
                   /\ load_result' = DeadInputError(
                        cleaned.units[CHOOSE k \in dead :
                                        \A l \in dead : k <= l].name)
    /\ UNCHANGED <<sim_vars, bag_vars, raw_desc>>

\* Step 9: with paths holding a lock twice, the error names one of them.
LockPathCheck ==
    /\ load_pc = "chk_locks"
    /\ LET bad == _multi_lock_paths(flow_graph.units, flow_graph.edges)
       IN  \/ /\ bad = {}
              /\ load_pc' = "make_processor"
              /\ UNCHANGED load_result
           \/ /\ \E segment \in bad : load_result' = MultiLockError(segment)
              /\ load_pc' = "failed"
    /\ UNCHANGED <<sim_vars, bag_vars, raw_desc, flow_graph>>

\* Steps 10 to 12.
Classify ==
    /\ load_pc = "make_processor"
    /\ IF flow_graph.units = <<>>
       THEN /\ load_result' = EmptyProcError
            /\ load_pc' = "failed"
       ELSE /\ load_result' = Loaded(_make_processor(flow_graph.units,
                                                      flow_graph.edges))
            /\ load_pc' = "loaded"
    /\ UNCHANGED <<sim_vars, bag_vars, raw_desc, flow_graph>>

LoadNext ==
    \/ IngestUnit
    \/ BuildEdges
    \/ CycleCheck
    \/ Prune
    \/ LockPathCheck
    \/ Classify

LoadSpec == LoadInit /\ [][LoadNext]_vars

(***************************************************************************)
(* BagValDict's operators applied to pairs of dictionaries                 *)
(***************************************************************************)
\* The longest list of a dictionary under comparison.
MaxLst == 2

\* The instruction states the lists are made of.
BagVals ==
    {InstrState(0, "NO_STALL"), InstrState(0, "DATA"),
     InstrState(1, "NO_STALL")}

\* The lists that sort: no instruction in two states.
BagLists ==
    {val_lst \in SeqsUpTo(BagVals, MaxLst) :
        \A i, j \in DOMAIN val_lst :
            val_lst[i].instr = val_lst[j].instr => val_lst[i] = val_lst[j]}

\* The dictionaries over some of two keys, empty lists included.
BagDicts == UNION {[keys -> BagLists] : keys \in SUBSET {1, 2}}

BagInit ==
    /\ hw_info = 1
    /\ program = <<>>
    /\ util_tbl = <<>>
    /\ acc_queues = _build_acc_plan(program)
    /\ entered = 0
    /\ exited = 0
    /\ old_util = BagValDict(DOMAIN name_unit_map(Processors[hw_info]))
    /\ cp_util = old_util
    /\ cp_shared = {}
    /\ mem_busy = FALSE
    /\ dst_idx = 1
    /\ accepted = TRUE
    /\ pc = "idle"
    /\ processor_state = <<>>
    /\ raw_desc = [units |-> <<>>, dataPath |-> <<>>]
    /\ load_pc = "idle"
    /\ flow_graph = [units |-> <<>>, edges |-> <<>>]
    /\ load_result = NoResult
    /\ bag_self \in BagDicts
    /\ bag_other \in BagDicts
    /\ bag_result = NoResult

\* self == other
BagEq ==
    /\ bag_result = NoResult
    /\ bag_result' = [op |-> "eq",
                      value |-> BagValDict_eq(bag_self, bag_other)]
    /\ UNCHANGED <<sim_vars, load_vars, bag_self, bag_other>>

\* self != other
BagNe ==
    /\ bag_result = NoResult
    /\ bag_result' = [op |-> "ne",
                      value |-> BagValDict_ne(bag_self, bag_other)]
    /\ UNCHANGED <<sim_vars, load_vars, bag_self, bag_other>>

\* len(self)
BagLen ==
    /\ bag_result = NoResult
    /\ bag_result' = [op |-> "len", value |-> BagValDict_len(bag_self)]
    /\ UNCHANGED <<sim_vars, load_vars, bag_self, bag_other>>

BagNext ==
    \/ BagEq
    \/ BagNe
    \/ BagLen

BagSpec == BagInit /\ [][BagNext]_vars

(***************************************************************************)
(* Vocabulary of the properties                                            *)
(***************************************************************************)
\* The program indices a list of instruction states holds.
InstrsOf(instr_lst) == {instr_lst[k].instr : k \in DOMAIN instr_lst}

\* The program indices held anywhere in a utilization entry.
InstrsIn(util_info) ==
    UNION {InstrsOf(util_info[name]) : name \in DOMAIN util_info}

\* The names of the units at the output boundary.
OutNames == {unit.name : unit \in Range(_get_out_ports(Desc))}

\* The functional units: the ones with predecessors.
FuncUnits == Range(_dst_units(Desc))

\* The entry before the t-th one of the table (the empty one before the
\* first).
EntryBefore(t) ==
    IF t = 1 THEN BagValDict(DOMAIN Units) ELSE util_tbl[t - 1]

\* The instructions in a memory access unit in entry new_util that entry
\* old does not hold in that unit.
MemArrivals(old, new_util) ==
    {<<name, instr>> \in (DOMAIN Units) \X InstrsIn(new_util) :
        /\ Units[name].mem_access
        /\ instr \in InstrsOf(new_util[name])
        /\ instr \notin InstrsOf(old[name])}

\* C1: every unit holds at most its width of instructions, in every entry
\* of the utilization table and at every moment of the cycle being
\* computed, so no move or fetch fills a unit beyond its free slots.
C1_WidthRespected ==
    /\ \A t \in DOMAIN util_tbl : \A name \in DOMAIN Units :
            Len(util_tbl[t][name]) <= Units[name].width
    /\ \A name \in DOMAIN Units : Len(cp_util[name]) <= Units[name].width

\* A committed entry in which a unit is full and one of its predecessors
\* holds an instruction that could not advance.
C1_Witness ==
    \E t \in DOMAIN util_tbl : \E unit \in FuncUnits :
        /\ Len(util_tbl[t][unit.model.name]) = unit.model.width
        /\ \E pred \in Range(unit.predecessors) :
            \E k \in DOMAIN util_tbl[t][pred.name] :
                util_tbl[t][pred.name][k].stalled = "STRUCTURAL"

\* C2: in every cycle, committed or being computed, at most one
\* instruction arrives in a memory access unit, over the whole processor.
C2_OneMemArrival ==
    /\ \A t \in DOMAIN util_tbl :
            Cardinality(MemArrivals(EntryBefore(t), util_tbl[t])) <= 1
    /\ Cardinality(MemArrivals(old_util, cp_util)) <= 1

\* A committed entry in which a memory access unit took one instruction,
\* kept a free slot, and left behind a candidate it supports.
C2_Witness ==
    \E t \in DOMAIN util_tbl : \E unit \in FuncUnits :
        /\ unit.model.mem_access
        /\ \E instr \in InstrsOf(util_tbl[t][unit.model.name]) :
                <<unit.model.name, instr>>
                    \in MemArrivals(EntryBefore(t), util_tbl[t])
        /\ Len(util_tbl[t][unit.model.name]) < unit.model.width
        /\ \E pred \in Range(unit.predecessors) :
            \E k \in DOMAIN util_tbl[t][pred.name] :
                /\ util_tbl[t][pred.name][k].stalled = "STRUCTURAL"
                /\ program[util_tbl[t][pred.name][k].instr + 1].categ
                        \in unit.model.capabilities


\* The instructions an entry shows unstalled at an output boundary unit:
\* the ones retiring in it.
Retiring(util_info) ==
    {instr \in InstrsIn(util_info) :
        \E name \in OutNames :
            \E k \in DOMAIN util_info[name] :
                util_info[name][k] = InstrState(instr, "NO_STALL")}

\* The places of an entry: a unit and a position in its list.
Places(util_info) ==
    UNION {{<<name, k>> : k \in DOMAIN util_info[name]} :
            name \in DOMAIN util_info}

\* The places of an entry holding a retiring instruction.
RetiringPlaces(util_info) ==
    {place \in Places(util_info) :
        /\ place[1] \in OutNames
        /\ util_info[place[1]][place[2]].stalled = "NO_STALL"}

\* The unit holding the instruction in the entry.
UnitOf(util_info, instr) ==
    CHOOSE name \in DOMAIN util_info : instr \in InstrsOf(util_info[name])

\* The state of the instruction in the entry.
StateOf(util_info, instr) ==
    LET instr_lst == util_info[UnitOf(util_info, instr)]
    IN  instr_lst[CHOOSE k \in DOMAIN instr_lst :
                    instr_lst[k].instr = instr].stalled

\* The names of the direct predecessors of a unit, and of all the units
\* upstream of it.
PredNames(name) ==
    UNION {{pred.name : pred \in Range(unit.predecessors)} :
            unit \in {u \in FuncUnits : u.model.name = name}}

RECURSIVE Upstream(_)
Upstream(name) ==
    PredNames(name) \cup UNION {Upstream(pred) : pred \in PredNames(name)}

Halted == pc \in {"returned", "stalled"}

\* The most cycles a run can commit: an instruction enters once and, in
\* each unit, changes state at most twice and leaves at most once; one
\* more entry is the empty one left when the last instructions retire.
CycleBound == Len(program) * (3 * Cardinality(DOMAIN Units) + 1) + 1

\* The most steps left in the cycle being computed.
PhaseLeft ==
    CASE pc = "simulate" ->
            Len(_dst_units(Desc)) + Len(program) + 4
      [] pc = "mov_flights" ->
            (Len(_dst_units(Desc)) - dst_idx) + Len(program) + 4
      [] pc = "fill_inputs" ->
            (Len(program) - entered) + (IF accepted THEN 1 ELSE 0) + 2
      [] pc = "chk_full_stall" -> 1
      [] OTHER -> 0

\* What a run has left to do: cycles first, then steps of the cycle.
Variant ==
    (CycleBound - Len(util_tbl))
        * (Len(_dst_units(Desc)) + Len(program) + 5) + PhaseLeft

\* The run can go on: some step of the cycle is ready to be taken. The
\* steps of Phases 2 to 4 are ready whenever the run is at them, with the
\* destination or the instruction they work on in range.
CanStep ==
    \/ pc = "simulate" /\ ENABLED (FlushOutputs \/ Return)
    \/ pc = "mov_flights" /\ dst_idx \in DOMAIN _dst_units(Desc)
    \/ pc = "fill_inputs"
        /\ (entered < Len(program) /\ accepted
                => program[entered + 1].categ \in {"ALU", "MEM"})
    \/ pc = "chk_full_stall" /\ ENABLED (RaiseStallError \/ Commit)

RECURSIVE SumRetiring(_, _)
SumRetiring(tbl, t) ==
    IF t = 0 THEN 0
    ELSE Cardinality(RetiringPlaces(tbl[t])) + SumRetiring(tbl, t - 1)

\* C4: exited counts each retiring instruction of each committed entry
\* once and never exceeds entered; between cycles, entered - exited is the
\* number of instructions of the last entry that are not retiring.
C4_IssueRecord ==
    /\ exited <= entered
    /\ exited = SumRetiring(util_tbl, Len(util_tbl))
    /\ exited = Cardinality(
            UNION {Retiring(util_tbl[t]) : t \in DOMAIN util_tbl})
    /\ pc \in {"simulate", "returned", "stalled"} /\ util_tbl # <<>> =>
            entered - exited =
                Cardinality(Places(util_tbl[Len(util_tbl)])
                                \ RetiringPlaces(util_tbl[Len(util_tbl)]))

\* Between cycles, the last entry holds a retiring instruction, a
\* data-stalled one at the output boundary and one at an input.
C4_Witness ==
    /\ pc = "simulate"
    /\ util_tbl # <<>>
    /\ exited > 0
    /\ LET last == util_tbl[Len(util_tbl)]
       IN  /\ Retiring(last) # {}
           /\ \E name \in OutNames : \E k \in DOMAIN last[name] :
                    last[name][k].stalled = "DATA"
           /\ \E name \in DOMAIN last \ OutNames : last[name] # <<>>

\* An entry holds each program index at most once.
Unique(util_info) ==
    Cardinality(Places(util_info)) = Cardinality(InstrsIn(util_info))

\* C5: each program index appears at most once in every entry and at
\* every moment of a cycle, and moving keeps exactly the instructions of
\* the previous entry that did not retire.
C5_OnceOverall ==
    /\ \A t \in DOMAIN util_tbl : Unique(util_tbl[t])
    /\ Unique(cp_util)
    /\ pc \in {"mov_flights", "fill_inputs", "chk_full_stall"} =>
            InstrsIn(cp_util) \cap InstrsIn(old_util)
                = InstrsIn(old_util) \ Retiring(old_util)

\* Phase 2 has moved two instructions of one host into a unit.
C5_Witness ==
    /\ pc = "fill_inputs"
    /\ \E unit \in FuncUnits : \E pred \in Range(unit.predecessors) :
            Cardinality((InstrsOf(cp_util[unit.model.name])
                            \cap InstrsOf(old_util[pred.name]))) >= 2

\* C6: from an entry to the next an instruction stays in its unit or moves
\* to a direct successor; once in the table it stays until it retires, is
\* never seen upstream of a unit it occupied, and is in no entry after the
\* one it retires in.
C6_ForwardOnly ==
    \A t \in DOMAIN util_tbl : \A instr \in InstrsIn(util_tbl[t]) :
        /\ t > 1 /\ instr \in InstrsIn(util_tbl[t - 1]) =>
            \/ UnitOf(util_tbl[t], instr) = UnitOf(util_tbl[t - 1], instr)
            \/ UnitOf(util_tbl[t - 1], instr)
                    \in PredNames(UnitOf(util_tbl[t], instr))
        /\ \A s \in 1..(t - 1) :
            instr \in InstrsIn(util_tbl[s]) =>
                /\ instr \in InstrsIn(util_tbl[t - 1])
                /\ instr \notin Retiring(util_tbl[s])
                /\ UnitOf(util_tbl[t], instr)
                        \notin Upstream(UnitOf(util_tbl[s], instr))

\* A returned run in which an instruction went through three units, was
\* held in one of them for two entries, and retired before the last entry.
C6_Witness ==
    /\ pc = "returned"
    /\ util_tbl # <<>>
    /\ \E instr \in InstrsIn(util_tbl[1]) :
        /\ Cardinality({UnitOf(util_tbl[t], instr) :
                t \in {u \in DOMAIN util_tbl :
                        instr \in InstrsIn(util_tbl[u])}}) >= 3
        /\ \E t \in 2..Len(util_tbl) :
            /\ instr \in InstrsIn(util_tbl[t])
            /\ instr \in InstrsIn(util_tbl[t - 1])
            /\ UnitOf(util_tbl[t], instr) = UnitOf(util_tbl[t - 1], instr)
        /\ instr \notin InstrsIn(util_tbl[Len(util_tbl)])

\* The destination that Phase 2 fills k-th, and the utilization and the
\* memory flag Phase 2 has reached when its turn comes.
PhaseTwoBefore(k, old) ==
    _mov_flights(Islice(_dst_units(Desc), k - 1), program,
                 _flush_outputs(_get_out_ports(Desc), old))

\* The candidates of a unit: the instructions in its predecessors that it
\* supports and that are not data-stalled.
Elig(unit, util_info) ==
    {instr \in InstrsIn(util_info) :
        /\ UnitOf(util_info, instr) \in PredNames(unit.model.name)
        /\ StateOf(util_info, instr) # "DATA"
        /\ program[instr + 1].categ \in unit.model.capabilities}

\* The n smallest members of a set of program indices.
Smallest(S, n) == {i \in S : Cardinality({j \in S : j < i}) < n}

\* The instructions the unit holds in the entry and did not hold before.
Arrived(unit, before, util_info) ==
    InstrsOf(util_info[unit.model.name])
        \ InstrsOf(before[unit.model.name])

\* The instruction is where it was, marked as structurally stalled.
LeftStructural(instr, before, util_info) ==
    /\ instr \in InstrsOf(util_info[UnitOf(before, instr)])
    /\ StateOf(util_info, instr) = "STRUCTURAL"

\* The destinations whose candidates outnumber their free slots in the
\* cycle from entry old.
Contended(old) ==
    {k \in DOMAIN _dst_units(Desc) :
        LET pre == PhaseTwoBefore(k, old).util_info
            unit == _dst_units(Desc)[k]
        IN  Cardinality(Elig(unit, pre)) > _space_avail(unit.model, pre)}

\* The claim as the specification words it: a contended destination takes
\* as many candidates as it has free slots, the ones with the smallest
\* indices, and every other candidate is in its host, structurally
\* stalled, in the entry of the cycle.
C7_AsWorded ==
    pc = "chk_full_stall" =>
        \A k \in Contended(old_util) :
            LET pre == PhaseTwoBefore(k, old_util).util_info
                unit == _dst_units(Desc)[k]
                moved == Arrived(unit, pre, cp_util)
            IN  /\ moved = Smallest(Elig(unit, pre),
                                    _space_avail(unit.model, pre))
                /\ \A instr \in Elig(unit, pre) \ moved :
                        LeftStructural(instr, pre, cp_util)

\* The number of candidates a contended destination takes: its free slots,
\* or, for a memory access unit, one at most, and none once a memory access
\* unit has been filled in the cycle.
Quota(unit, pre) ==
    IF ~unit.model.mem_access THEN _space_avail(unit.model, pre.util_info)
    ELSE IF pre.mem_busy \/ _space_avail(unit.model, pre.util_info) = 0
    THEN 0 ELSE 1

\* C7: a contended destination takes the candidates with the smallest
\* program indices, over all its predecessors together, up to its free
\* slots, a memory access unit one at most and none once another has been
\* filled in the cycle; a candidate left behind is in its host,
\* structurally stalled, in the entry of the cycle, unless a destination
\* filled later in the cycle has taken it.
C7_SmallestFirst ==
    pc = "chk_full_stall" =>
        \A k \in Contended(old_util) :
            LET pre == PhaseTwoBefore(k, old_util)
                unit == _dst_units(Desc)[k]
                moved == Arrived(unit, pre.util_info, cp_util)
            IN  /\ moved = Smallest(Elig(unit, pre.util_info),
                                    Quota(unit, pre))
                /\ \A instr \in Elig(unit, pre.util_info) \ moved :
                    \/ LeftStructural(instr, pre.util_info, cp_util)
                    \/ \E j \in DOMAIN _dst_units(Desc) :
                        /\ j > k
                        /\ UnitOf(pre.util_info, instr) \in
                            PredNames(_dst_units(Desc)[j].model.name)
                        /\ instr \in Arrived(_dst_units(Desc)[j],
                                             pre.util_info, cp_util)

\* A cycle in which a contended destination with candidates in two hosts
\* took a candidate of one host and left one, structurally stalled, in the
\* other.
C7_Witness ==
    /\ pc = "chk_full_stall"
    /\ \E k \in Contended(old_util) :
        LET pre == PhaseTwoBefore(k, old_util).util_info
            unit == _dst_units(Desc)[k]
            moved == Arrived(unit, pre, cp_util)
        IN  \E instr \in Elig(unit, pre) \ moved : \E taken \in moved :
                /\ UnitOf(pre, instr) # UnitOf(pre, taken)
                /\ LeftStructural(instr, pre, cp_util)


\* Two entries are the same: every unit holds the same instructions in the
\* same states, each as many times.
SameEntry(a, b) ==
    \A name \in DOMAIN a :
        /\ Len(a[name]) = Len(b[name])
        /\ \A x \in Range(a[name]) \cup Range(b[name]) :
            Cardinality({k \in DOMAIN a[name] : a[name][k] = x})
                = Cardinality({k \in DOMAIN b[name] : b[name][k] = x})

\* C8: a cycle whose entry is the same as the previous one (the empty one
\* before the first) raises StallError and appends nothing; the table
\* grows by appending only; the processor_state of StallError is the table,
\* in which no entry repeats the one before it and whose last entry is the
\* state the cycle found again.
C8_StallState ==
    /\ [][pc = "chk_full_stall"
            /\ SameEntry(cp_util, EntryBefore(Len(util_tbl) + 1))
                => /\ pc' = "stalled"
                   /\ processor_state' = util_tbl
                   /\ util_tbl' = util_tbl]_vars
    /\ [][util_tbl' = util_tbl
            \/ (pc' # "stalled" /\ util_tbl' = Append(util_tbl, cp_util))]_vars
    /\ [](pc = "stalled" =>
            /\ processor_state = util_tbl
            /\ SameEntry(cp_util, EntryBefore(Len(util_tbl) + 1))
            /\ \A t \in DOMAIN util_tbl :
                    ~SameEntry(util_tbl[t], EntryBefore(t)))

\* StallError raised after three cycles that made progress, the stalled
\* state holding instructions in two units.
C8_Witness ==
    /\ pc = "stalled"
    /\ Len(processor_state) >= 3
    /\ Cardinality({name \in DOMAIN cp_util : cp_util[name] # <<>>}) >= 2


\* The program indices whose category no input supports, and the first.
Unsupported ==
    {k \in 0..(Len(program) - 1) :
        program[k + 1].categ \notin DOMAIN _in_cap_map(Desc)}

FirstUnsupported == CHOOSE k \in Unsupported : \A j \in Unsupported : k <= j

\* The run of the instructions before the first unsupported one, alone.
PrefixRun == simulate(SubSeq(program, 1, FirstUnsupported), Desc)

\* The table of the instructions before the first unsupported one,
\* followed by one empty entry; the empty table if there are none.
DrainedTable ==
    IF FirstUnsupported = 0 THEN <<>>
    ELSE Append(PrefixRun.util_tbl, BagValDict(DOMAIN Units))

\* The claim as the specification words it: no instruction from the
\* unsupported one on enters, and StallError comes after the instructions
\* before it have drained, with their table and one empty entry.
C9_AsWorded ==
    Unsupported # {} =>
        /\ entered <= FirstUnsupported
        /\ pc # "returned"
        /\ pc = "stalled" => processor_state = DrainedTable

\* C9: no instruction from the first unsupported one on enters and the run
\* never returns; the instructions before it run as they do alone: if
\* alone they end in StallError, so does the run, with the same state, and
\* otherwise StallError carries their table followed by one empty entry,
\* the empty table if there are none.
C9_UnsupportedBlocks ==
    Unsupported # {} =>
        /\ entered <= FirstUnsupported
        /\ pc # "returned"
        /\ pc = "stalled" =>
            processor_state =
                IF PrefixRun.raised THEN PrefixRun.util_tbl
                ELSE DrainedTable

\* StallError after two instructions before the unsupported one went
\* through the pipeline and retired.
C9_Witness ==
    /\ pc = "stalled"
    /\ Unsupported # {}
    /\ FirstUnsupported = 2
    /\ exited = 2
    /\ Len(processor_state) >= 3
    /\ InstrsIn(processor_state[Len(processor_state)]) = {}


\* The instructions of the entry held in the unit in one of the states.
Held(util_info, name, states) ==
    {util_info[name][k].instr :
        k \in {j \in DOMAIN util_info[name] :
                util_info[name][j].stalled \in states}}

\* From entry before to entry after, each output boundary unit has lost
\* the instructions that were unstalled in it, to no other unit, and kept
\* the others.
FlushedBetween(before, after) ==
    \A name \in OutNames :
        /\ Held(before, name, {"NO_STALL"}) \cap InstrsIn(after) = {}
        /\ Held(before, name, {"DATA", "STRUCTURAL"})
                \subseteq InstrsOf(after[name])

\* C10: Phase 1 takes out of the output boundary units the instructions
\* unstalled in the previous entry, these only, and leaves the other units
\* as they are; so through the cycle and in the next entry a data-stalled
\* instruction of an output boundary unit is still in its unit, and an
\* instruction leaves the table only from an entry where it is unstalled
\* there; exited counts no instruction that has not been so.
C10_FlushUnstalled ==
    /\ [][pc = "simulate" /\ pc' # "returned" =>
            LET prev == EntryBefore(Len(util_tbl) + 1)
            IN  \A name \in DOMAIN Units :
                    /\ Len(cp_util'[name]) = Cardinality(Range(cp_util'[name]))
                    /\ Range(cp_util'[name]) =
                        {x \in Range(prev[name]) :
                            name \in OutNames => x.stalled # "NO_STALL"}]_vars
    /\ [](pc \in {"mov_flights", "fill_inputs", "chk_full_stall"} =>
            FlushedBetween(old_util, cp_util))
    /\ [](\A t \in DOMAIN util_tbl :
            /\ FlushedBetween(EntryBefore(t), util_tbl[t])
            /\ InstrsIn(EntryBefore(t)) \ InstrsIn(util_tbl[t])
                    \subseteq Retiring(EntryBefore(t)))
    /\ [](/\ exited = Cardinality(
                UNION {Retiring(util_tbl[t]) : t \in DOMAIN util_tbl})
          /\ \A t \in DOMAIN util_tbl : \A name \in OutNames :
                \A instr \in Held(util_tbl[t], name, {"DATA"}) :
                    \A s \in 1..t : instr \notin Retiring(util_tbl[s]))

\* A returned run in which an instruction was data-stalled in an output
\* boundary unit in one entry, unstalled there in the next, and in no
\* entry after.
C10_Witness ==
    /\ pc = "returned"
    /\ \E t \in DOMAIN util_tbl : \E name \in OutNames :
        \E instr \in Held(util_tbl[t], name, {"DATA"}) :
            /\ t + 2 \in DOMAIN util_tbl
            /\ instr \in Held(util_tbl[t + 1], name, {"NO_STALL"})
            /\ instr \notin InstrsIn(util_tbl[t + 2])


\* In the entry, the instructions marked as structurally stalled are the
\* ones the entry before holds in the same unit in a state other than
\* DATA.
StructuralAsLoaded(before, util_info) ==
    \A name \in DOMAIN util_info :
        Held(util_info, name, {"STRUCTURAL"}) =
            InstrsOf(util_info[name])
                \cap Held(before, name, {"NO_STALL", "STRUCTURAL"})

\* C11: the hazard check marks an instruction as structurally stalled if
\* and only if the previous entry holds it in the same unit in a state
\* other than DATA, in the entry the cycle computes and so in every entry
\* of the table; an instruction new to its unit, or data-stalled in it
\* before, is never marked so.
C11_StructuralIffLoaded ==
    /\ pc = "chk_full_stall" => StructuralAsLoaded(old_util, cp_util)
    /\ \A t \in DOMAIN util_tbl :
            StructuralAsLoaded(EntryBefore(t), util_tbl[t])

\* The hazard check has marked one instruction, unstalled in its unit
\* before, as structurally stalled, and has looked again at another that was
\* data-stalled in its unit before.
C11_Witness ==
    /\ pc = "chk_full_stall"
    /\ \E name \in DOMAIN cp_util :
            Held(cp_util, name, {"STRUCTURAL"})
                \cap Held(old_util, name, {"NO_STALL"}) # {}
    /\ \E name \in DOMAIN cp_util :
            Held(cp_util, name, {"DATA", "NO_STALL"})
                \cap Held(old_util, name, {"DATA"}) # {}


\* The queue grants the access: its first group is of the kind and has the
\* instruction among its owners.
Grants(queue, kind, instr) ==
    /\ Len(queue) >= 1
    /\ queue[1].access_type = kind
    /\ \E k \in DOMAIN queue[1].owners : queue[1].owners[k] = instr

\* The accesses a queue holds, as pairs of a kind and an instruction.
Accesses(queue) ==
    UNION {{<<queue[g].access_type, queue[g].owners[k]>> :
                k \in DOMAIN queue[g].owners} : g \in DOMAIN queue}

\* The accesses the unit's locks make the instruction ask for: its source
\* registers for reading under a read lock, its destination for writing
\* under a write lock.
Asked(name, instr) ==
    {<<reg, "READ">> : reg \in
        IF Units[name].lock_info.rd_lock
        THEN Range(program[instr + 1].sources) ELSE {}}
    \cup {<<reg, "WRITE">> : reg \in
        IF Units[name].lock_info.wr_lock
        THEN {program[instr + 1].destination} ELSE {}}

\* The instructions of the entry that the data check looks at: the ones
\* new to their unit or data-stalled in it before.
Checked(before, util_info) ==
    {<<name, instr>> \in (DOMAIN util_info) \X InstrsIn(util_info) :
        /\ instr \in InstrsOf(util_info[name])
        /\ instr \notin Held(before, name, {"NO_STALL", "STRUCTURAL"})}

\* C12: the hazard check marks an instruction that is new to its unit or
\* was data-stalled in it as DATA if and only if one of the accesses the
\* unit's locks ask for is not granted by the register's queue, and else as
\* NO_STALL; the queues then lose exactly the accesses asked for by the
\* instructions marked NO_STALL, so that a lock the unit does not hold is
\* neither checked nor dequeued.
C12_DataIffNotGranted ==
    [][pc = "fill_inputs" /\ pc' = "chk_full_stall" =>
        /\ \A place \in Checked(old_util, cp_util') :
            /\ StateOf(cp_util', place[2]) \in {"DATA", "NO_STALL"}
            /\ StateOf(cp_util', place[2]) = "DATA" <=>
                \E ask \in Asked(place[1], place[2]) :
                    ~Grants(acc_queues[ask[1]], ask[2], place[2])
        /\ DOMAIN acc_queues' = DOMAIN acc_queues
        /\ \A reg \in DOMAIN acc_queues :
            /\ Accesses(acc_queues'[reg]) =
                Accesses(acc_queues[reg]) \
                    {<<ask[2], place[2]>> :
                        <<place, ask>> \in
                            {<<p, a>> \in Checked(old_util, cp_util')
                                    \X (Registers \X {"READ", "WRITE"}) :
                                /\ a \in Asked(p[1], p[2])
                                /\ a[1] = reg
                                /\ StateOf(cp_util', p[2]) = "NO_STALL"}}
            /\ \A g \in DOMAIN acc_queues'[reg] :
                    acc_queues'[reg][g].owners # <<>>]_vars

\* After the hazard check, a unit with a read lock and no write lock holds
\* a new instruction, unstalled, that has a source register and whose
\* write is still in the queue of its destination, and some unit holds a
\* data-stalled instruction.
C12_Witness ==
    /\ pc = "chk_full_stall"
    /\ \E place \in Checked(old_util, cp_util) :
        /\ Units[place[1]].lock_info.rd_lock
        /\ ~Units[place[1]].lock_info.wr_lock
        /\ program[place[2] + 1].sources # <<>>
        /\ StateOf(cp_util, place[2]) = "NO_STALL"
        /\ <<"WRITE", place[2]>> \in
                Accesses(acc_queues[program[place[2] + 1].destination])
        /\ \A k \in DOMAIN program[place[2] + 1].sources :
                <<"READ", place[2]>> \notin
                    Accesses(acc_queues[program[place[2] + 1].sources[k]])
    /\ \E place \in Checked(old_util, cp_util) :
            StateOf(cp_util, place[2]) = "DATA"


\* What is left of a group of accesses when some of its owners are gone:
\* the same kind, the owners left in their order.
LeftOfGroup(left, group) ==
    /\ left.access_type = group.access_type
    /\ Range(left.owners) \subseteq Range(group.owners)
    /\ left.owners # <<>>
    /\ \A a, b \in DOMAIN left.owners :
        a < b => \E c, d \in DOMAIN group.owners :
                    /\ c < d
                    /\ group.owners[c] = left.owners[a]
                    /\ group.owners[d] = left.owners[b]

\* What is left of a queue after the accesses of some owners of its first
\* group have been granted: the queue itself, or the queue with its first
\* group reduced, or without its first group.
LeftOfQueue(left, queue) ==
    \/ left = queue
    \/ /\ queue # <<>>
       /\ \/ left = Tail(queue)
          \/ /\ left # <<>>
             /\ Tail(left) = Tail(queue)
             /\ LeftOfGroup(left[1], queue[1])

\* C13: the queues change in the hazard check only, where every unit is
\* checked against the queues as they are before it: each queue loses
\* accesses of its first group only, any of them, and the group itself
\* once they are all granted; so an access is granted in a later cycle than
\* the accesses of the groups before its own, and what is left of a queue
\* is always the end of the planned one.
C13_PlannedOrder ==
    /\ [][\A reg \in DOMAIN acc_queues :
            /\ reg \in DOMAIN acc_queues'
            /\ LeftOfQueue(acc_queues'[reg], acc_queues[reg])
            /\ acc_queues'[reg] # acc_queues[reg] =>
                    pc = "fill_inputs" /\ pc' = "chk_full_stall"]_vars
    /\ [][pc = "fill_inputs" /\ pc' = "chk_full_stall" =>
            \A place \in Checked(old_util, cp_util') :
                StateOf(cp_util', place[2]) = "NO_STALL" =>
                    \A ask \in Asked(place[1], place[2]) :
                        Grants(acc_queues[ask[1]], ask[2], place[2])]_vars
    /\ [](\A reg \in DOMAIN acc_queues :
            LET plan == _build_acc_plan(program)[reg]
                left == acc_queues[reg]
                gone == Len(plan) - Len(left)
            IN  /\ gone >= 0
                /\ left # <<>> =>
                    /\ Tail(left) = SubSeq(plan, gone + 2, Len(plan))
                    /\ LeftOfGroup(left[1], plan[gone + 1]))

\* After a hazard check, the first group of a queue has lost the read of
\* an instruction and still holds the read of an earlier one, and a queue
\* planned to start with a write has lost its first group.
C13_Witness ==
    /\ pc = "chk_full_stall"
    /\ \E reg \in DOMAIN acc_queues :
        LET plan == _build_acc_plan(program)[reg]
            left == acc_queues[reg]
        IN  /\ left # <<>>
            /\ left[1].access_type = "READ"
            /\ \E i \in Range(left[1].owners) :
                \E j \in Range(plan[Len(plan) - Len(left) + 1].owners)
                            \ Range(left[1].owners) : i < j
    /\ \E reg \in DOMAIN acc_queues :
        LET plan == _build_acc_plan(program)[reg]
        IN  /\ Len(plan) - Len(acc_queues[reg]) >= 1
            /\ plan[1].access_type = "WRITE"


\* The units instructions enter through.
InUnits == Range(Desc.in_out_ports) \cup Range(Desc.in_ports)

\* The input can take an instruction of the category now.
Accepts(unit, categ, util_info, busy) ==
    /\ categ \in unit.capabilities
    /\ Len(util_info[unit.name]) < unit.width
    /\ ~(busy /\ unit.mem_access)

\* The instructions the run has shown so far.
Seen == InstrsIn(cp_util) \cup UNION {InstrsIn(util_tbl[t]) : t \in DOMAIN util_tbl}

\* The first entry of the table holding the instruction.
FirstEntry(instr) ==
    CHOOSE t \in DOMAIN util_tbl :
        /\ instr \in InstrsIn(util_tbl[t])
        /\ \A s \in 1..(t - 1) : instr \notin InstrsIn(util_tbl[s])

\* C14: instructions enter in program order: a fetch puts instruction
\* number entered, and no other, in an input or puts nothing and ends the
\* fetching of the cycle; entered changes in no other way; the
\* instructions seen so far are the first entered ones of the program, a
\* cycle ends its fetching with the program exhausted or with no input
\* taking the next instruction, and no instruction is in the table before
\* one of a lower index.
C14_ProgramOrder ==
    /\ [][\/ /\ entered' = entered
             /\ pc = "fill_inputs" /\ pc' = "fill_inputs" =>
                    ~accepted' /\ cp_util' = cp_util
          \/ /\ pc = "fill_inputs" /\ pc' = "fill_inputs" /\ accepted
             /\ entered' = entered + 1
             /\ entered \notin InstrsIn(cp_util)
             /\ \E unit \in InUnits :
                    cp_util' = [cp_util EXCEPT ![unit.name] =
                        Append(@, InstrState(entered, "NO_STALL"))]]_vars
    /\ [](Seen = 0..(entered - 1))
    /\ [](pc = "chk_full_stall" /\ entered < Len(program) =>
            \A unit \in InUnits :
                ~Accepts(unit, program[entered + 1].categ, cp_util,
                         mem_busy))
    /\ [](\A t \in DOMAIN util_tbl : \A j \in InstrsIn(util_tbl[t]) :
            \A i \in 0..(j - 1) : FirstEntry(i) <= FirstEntry(j))

\* A cycle has fetched two instructions and stopped at a third that no
\* input takes, while an input has a free slot.
C14_Witness ==
    /\ pc = "chk_full_stall"
    /\ entered < Len(program)
    /\ Cardinality(InstrsIn(cp_util) \ InstrsIn(old_util)) >= 2
    /\ \E unit \in InUnits : Len(cp_util[unit.name]) < unit.width


\* A sequence in reverse.
Reversed(s) == [k \in DOMAIN s |-> s[Len(s) + 1 - k]]

\* The processor with its inputs listed in reverse in each role, and with
\* the two roles listed one for the other as far as fetching goes.
Relisted(processor) ==
    [processor EXCEPT !.in_ports = Reversed(processor.in_out_ports),
                      !.in_out_ports = Reversed(processor.in_ports)]

\* C15: a fetched instruction goes to the input of the lowest name, among
\* all the inputs of both roles, that supports its category, has a free
\* slot and, if it accesses memory, finds memory not busy in the cycle; it
\* is not fetched when there is none; the inputs tried for a category are
\* the same however the processor lists them.
C15_FirstByName ==
    /\ [][pc = "fill_inputs" /\ pc' = "fill_inputs" =>
            LET takers == {unit \in InUnits :
                            Accepts(unit, program[entered + 1].categ,
                                    cp_util, mem_busy)}
            IN  /\ takers = {} => entered' = entered /\ cp_util' = cp_util
                /\ \A unit \in takers :
                    (\A other \in takers : unit.name <= other.name) =>
                        /\ entered' = entered + 1
                        /\ cp_util' = [cp_util EXCEPT ![unit.name] =
                            Append(@, InstrState(entered, "NO_STALL"))]]_vars
    /\ [](_in_cap_map(Relisted(Desc)) = _in_cap_map(Desc))

\* A fetched instruction is in an input that the processor lists before
\* an input of a lower name, which supports it and has a free slot but
\* accesses memory, busy in the cycle.
C15_Witness ==
    /\ pc = "fill_inputs"
    /\ entered > 0
    /\ \E unit, other \in InUnits :
        /\ entered - 1 \in InstrsOf(cp_util[unit.name])
        /\ entered - 1 \notin InstrsIn(old_util)
        /\ other.name < unit.name
        /\ program[entered].categ \in other.capabilities
        /\ Len(cp_util[other.name]) < other.width
        /\ other.mem_access /\ mem_busy
        /\ \E a, b \in DOMAIN (Desc.in_out_ports \o Desc.in_ports) :
            /\ a < b
            /\ (Desc.in_out_ports \o Desc.in_ports)[a] = unit
            /\ (Desc.in_out_ports \o Desc.in_ports)[b] = other


\* From entry before to entry after, every unit has kept the instructions
\* that were data-stalled in it.
DataStalledKept(before, after) ==
    \A name \in DOMAIN before :
        Held(before, name, {"DATA"}) \subseteq InstrsOf(after[name])

\* C16: a data-stalled instruction is not moved: no step of a cycle takes
\* it out of its unit, where it is in the next entry, counted in the
\* unit's width; the hazard check of every cycle looks at it again, and
\* marks it NO_STALL if the queues grant the accesses the unit's locks ask
\* for and DATA if not, never STRUCTURAL.
C16_DataStalledStays ==
    /\ [][pc' # "simulate" /\ pc' # "returned" =>
            DataStalledKept(cp_util, cp_util')]_vars
    /\ [](pc \in {"mov_flights", "fill_inputs", "chk_full_stall"} =>
            DataStalledKept(old_util, cp_util))
    /\ [](\A t \in DOMAIN util_tbl : \A name \in DOMAIN Units :
            /\ Held(EntryBefore(t), name, {"DATA"})
                \subseteq Held(util_tbl[t], name, {"DATA", "NO_STALL"})
            /\ Len(util_tbl[t][name]) <= Units[name].width)
    /\ [][pc = "fill_inputs" /\ pc' = "chk_full_stall" =>
            \A name \in DOMAIN Units :
                \A instr \in Held(old_util, name, {"DATA"}) :
                    instr \in
                        IF \A ask \in Asked(name, instr) :
                                Grants(acc_queues[ask[1]], ask[2], instr)
                        THEN Held(cp_util', name, {"NO_STALL"})
                        ELSE Held(cp_util', name, {"DATA"})]_vars

\* An instruction has been data-stalled for two entries in a unit it
\* fills, with an instruction of a lower index structurally stalled in a
\* predecessor of the unit.
C16_Witness ==
    \E t \in DOMAIN util_tbl : \E unit \in FuncUnits :
        /\ t >= 2
        /\ Len(util_tbl[t][unit.model.name]) = unit.model.width
        /\ \E instr \in Held(util_tbl[t], unit.model.name, {"DATA"}) :
            /\ instr \in Held(util_tbl[t - 1], unit.model.name, {"DATA"})
            /\ \E pred \in PredNames(unit.model.name) :
                \E older \in Held(util_tbl[t], pred, {"STRUCTURAL"}) :
                    older < instr


\* The outcome of the run from a state between two cycles: the table, or
\* the state StallError carries.
RestOfRun ==
    _simulate_loop(program, acc_queues, Desc, util_tbl,
                   [entered |-> entered, exited |-> exited])

RECURSIVE DeletesInRange(_, _)
DeletesInRange(instructions, util_info) ==
    \/ instructions = <<>>
    \/ /\ Head(instructions).host \in DOMAIN util_info
       /\ Head(instructions).index_in_host
            \in DOMAIN util_info[Head(instructions).host]
       /\ DeletesInRange(
            Tail(instructions),
            [util_info EXCEPT ![Head(instructions).host] =
                DelAt(@, Head(instructions).index_in_host)])

\* The dequeues of a register, made in their order, each find the
\* instruction in the first group of the queue.
RECURSIVE DequeuesInHead(_, _)
DequeuesInHead(queue, req_lst) ==
    \/ req_lst = <<>>
    \/ /\ queue # <<>>
       /\ \E k \in DOMAIN queue[1].owners :
            queue[1].owners[k] = Head(req_lst)
       /\ DequeuesInHead(dequeue(queue, Head(req_lst)), Tail(req_lst))

\* The requests the hazard check is about to clear.
ReqsToClear ==
    _stall_units_from(1, old_util, cp_util, Units, program, acc_queues,
                      [reg \in Registers |-> <<>>]).reqs_to_clear

RECURSIVE Flat(_)
Flat(queue) ==
    IF queue = <<>> THEN <<>>
    ELSE [k \in DOMAIN queue[1].owners |->
            <<queue[1].access_type, queue[1].owners[k]>>]
         \o Flat(Tail(queue))

\* The accesses of the first n instructions of the program to a register,
\* in program order: an instruction reads the register once for each of
\* its sources that is the register, and then writes it if it is its
\* destination.
RECURSIVE PlannedAccesses(_, _)
PlannedAccesses(reg, n) ==
    IF n = 0 THEN <<>>
    ELSE PlannedAccesses(reg, n - 1)
         \o [k \in DOMAIN SelectSeq(program[n].sources,
                                    LAMBDA src : src = reg) |->
                <<"READ", n - 1>>]
         \o (IF program[n].destination = reg THEN <<<<"WRITE", n - 1>>>>
             ELSE <<>>)

\* C19: the access plan has a queue for each register the program names
\* and for no other; the accesses of a queue are the accesses of the
\* program to the register, the reads of an instruction before its write,
\* in program order; a write is a group of its own and reads that no write
\* separates are one group.
C19_PlanInProgramOrder ==
    LET plan == _build_acc_plan(program)
    IN  /\ DOMAIN plan =
            UNION {Range(program[k].sources) \cup {program[k].destination} :
                    k \in DOMAIN program}
        /\ \A reg \in DOMAIN plan :
            /\ Flat(plan[reg]) = PlannedAccesses(reg, Len(program))
            /\ \A g \in DOMAIN plan[reg] :
                /\ plan[reg][g].owners # <<>>
                /\ plan[reg][g].access_type \in {"READ", "WRITE"}
                /\ plan[reg][g].access_type = "WRITE" =>
                        Len(plan[reg][g].owners) = 1
                /\ g > 1 /\ plan[reg][g].access_type = "READ" =>
                        plan[reg][g - 1].access_type = "WRITE"

\* A run starts with a plan in which a queue has a group of the reads of
\* two instructions followed by the write of one of the two.
C19_Witness ==
    /\ pc = "simulate" /\ util_tbl = <<>>
    /\ acc_queues = _build_acc_plan(program)
    /\ \E reg \in DOMAIN acc_queues : \E g \in DOMAIN acc_queues[reg] :
        /\ acc_queues[reg][g].access_type = "READ"
        /\ Len(acc_queues[reg][g].owners) = 2
        /\ g + 1 \in DOMAIN acc_queues[reg]
        /\ acc_queues[reg][g + 1].owners[1]
                \in Range(acc_queues[reg][g].owners)


\* The queues under construction while the plan of the program is built:
\* the queue of each register after each number of instructions.
BuiltQueues ==
    {_builders(program, n)[reg] :
        n \in 0..Len(program), reg \in Registers}

\* C20: appending to an empty queue makes a queue of one request of the
\* kind appended; appending a read to a queue that ends with reads adds
\* the reader to the last group and no group; appending a write adds a
\* group of the writer alone at the end, whatever the queue ends with.
C20_BuilderAppend ==
    \A queue \in BuiltQueues : \A owner \in 0..Len(program) :
        /\ \A kind \in {"READ", "WRITE"} :
            /\ queue = <<>> =>
                builder_append(queue, kind, owner) =
                    <<[access_type |-> kind, owners |-> <<owner>>]>>
            /\ Flat(builder_append(queue, kind, owner)) =
                    Append(Flat(queue), <<kind, owner>>)
        /\ queue # <<>> /\ queue[Len(queue)].access_type = "READ" =>
            LET joined == builder_append(queue, "READ", owner)
            IN  /\ Len(joined) = Len(queue)
                /\ SubSeq(joined, 1, Len(queue) - 1)
                        = SubSeq(queue, 1, Len(queue) - 1)
                /\ joined[Len(queue)] =
                    [access_type |-> "READ",
                     owners |-> Append(queue[Len(queue)].owners, owner)]
        /\ LET added == builder_append(queue, "WRITE", owner)
           IN  /\ Len(added) = Len(queue) + 1
               /\ SubSeq(added, 1, Len(queue)) = queue
               /\ added[Len(queue) + 1] =
                    [access_type |-> "WRITE", owners |-> <<owner>>]

\* A run starts with a plan in which the reads of two instructions are
\* one group, and two writes one after the other are two.
C20_Witness ==
    /\ pc = "simulate" /\ util_tbl = <<>>
    /\ \E queue \in BuiltQueues : \E g \in DOMAIN queue :
        /\ queue[g].access_type = "READ"
        /\ Len(queue[g].owners) = 2
    /\ \E queue \in BuiltQueues : \E g \in DOMAIN queue :
        /\ g > 1
        /\ queue[g].access_type = "WRITE"
        /\ queue[g - 1].access_type = "WRITE"


\* The requests a queue grants: kind and owner.
Granted(queue) ==
    {req \in {"READ", "WRITE"} \X (0..Len(program)) :
        can_access(queue, req[1], req[2])}

\* Whatever granted request is chosen at each turn, dequeuing empties the
\* queue at the n-th dequeue and not before.
RECURSIVE DrainsIn(_, _)
DrainsIn(queue, n) ==
    IF queue = <<>> THEN n = 0
    ELSE /\ n > 0
         /\ Granted(queue) # {}
         /\ \A req \in Granted(queue) :
                DrainsIn(dequeue(queue, req[2]), n - 1)

\* The queues of a run: those the plan of the program goes through while
\* it is built, and those of the registers now.
RunQueues ==
    BuiltQueues \cup {acc_queues[reg] : reg \in DOMAIN acc_queues}

\* C21: a queue is emptied by as many dequeues of granted requests as it
\* holds accesses, whichever granted request is taken at each turn; the
\* requests granted are those of the kind of the head group made by one of
\* its owners; a dequeue takes one access out of the queue, and the head
\* group with it exactly when the access was the last of the group.
C21_DrainsExactly ==
    \A queue \in RunQueues :
        /\ DrainsIn(queue, Len(Flat(queue)))
        /\ \A kind \in {"READ", "WRITE"}, i \in 0..Len(program) :
            can_access(queue, kind, i) <=>
                /\ queue # <<>>
                /\ queue[1].access_type = kind
                /\ \E k \in DOMAIN queue[1].owners : queue[1].owners[k] = i
        /\ \A req \in Granted(queue) :
            LET left == dequeue(queue, req[2])
            IN  /\ Len(Flat(left)) = Len(Flat(queue)) - 1
                /\ IF Len(queue[1].owners) = 1
                   THEN left = Tail(queue)
                   ELSE /\ Len(left) = Len(queue)
                        /\ Tail(left) = Tail(queue)
                        /\ left[1].access_type = queue[1].access_type
                        /\ Len(left[1].owners) = Len(queue[1].owners) - 1

\* A hazard check has left a register with a read group that has lost one
\* of the two readers planned and is followed by a write.
C21_Witness ==
    /\ pc = "chk_full_stall"
    /\ \E reg \in DOMAIN acc_queues :
        LET plan == _build_acc_plan(program)[reg]
            left == acc_queues[reg]
        IN  /\ Len(left) >= 2
            /\ left[1].access_type = "READ"
            /\ Len(left[1].owners) = 1
            /\ Len(plan[Len(plan) - Len(left) + 1].owners) = 2
            /\ left[2].access_type = "WRITE"


(***************************************************************************)
(* Properties of loading                                                   *)
(***************************************************************************)
\* The processor loaded, once there is one.
IsLoaded == load_result.kind = "ProcessorDesc"

\* The orders a list can be supplied in.
Perms(s) ==
    {[k \in DOMAIN s |-> s[p[k]]] :
        p \in {q \in [DOMAIN s -> DOMAIN s] :
                    \A i, j \in DOMAIN s : q[i] = q[j] => i = j}}

\* No unit of a list of functional units has for predecessor a unit
\* before it in the list, or itself.
SuccessorsFirst(func_units) ==
    \A i \in DOMAIN func_units : \A j \in 1..i :
        \A k \in DOMAIN func_units[i].predecessors :
            func_units[i].predecessors[k].name # func_units[j].model.name

RECURSIVE ReachIn(_, _, _)
ReachIn(edges, found, n) ==
    LET next == found \cup {e[2] : e \in {f \in Range(edges) : f[1] \in found}}
    IN  IF n = 0 THEN found ELSE ReachIn(edges, next, n - 1)

Downstream(graph, name) ==
    ReachIn(graph.edges,
            {e[2] : e \in {f \in Range(graph.edges) : f[1] = name}},
            Len(graph.units))

Holds(unit, lock) ==
    IF lock = "readLock" THEN unit.readLock ELSE unit.writeLock

\* Some unit holding a lock is downstream of another holding the same
\* lock: in a graph without loops, some path from a unit without
\* predecessors to a unit without successors goes through both.
TwoLocksOnPath(graph) ==
    \E lock \in {"readLock", "writeLock"} :
        \E u, v \in Range(graph.units) :
            /\ Holds(u, lock) /\ Holds(v, lock)
            /\ v.name \in Downstream(graph, u.name)

\* A list of unit names is a path of the graph from a unit without
\* predecessors to a unit without successors on which two units or more
\* hold the same lock.
OffendingPath(graph, segment) ==
    /\ segment # <<>>
    /\ \A k \in DOMAIN segment :
            \E u \in Range(graph.units) : u.name = segment[k]
    /\ \A k \in 1..(Len(segment) - 1) :
            <<segment[k], segment[k + 1]>> \in Range(graph.edges)
    /\ \A e \in Range(graph.edges) :
            e[2] # segment[1] /\ e[1] # segment[Len(segment)]
    /\ \E lock \in {"readLock", "writeLock"} :
        Cardinality({k \in DOMAIN segment :
            \E u \in Range(graph.units) :
                u.name = segment[k] /\ Holds(u, lock)}) >= 2

\* The units of a processor, the functional units as models.
ModelsOf(proc) ==
    Range(proc.in_ports) \cup Range(proc.in_out_ports)
        \cup {unit.model : unit \in Range(proc.out_ports)
                                        \cup Range(proc.internal_units)}

PredsOf(proc, name) ==
    UNION {Range(unit.predecessors) :
            unit \in {f \in Range(proc.out_ports)
                                \cup Range(proc.internal_units) :
                        f.model.name = name}}

\* The most units holding a lock on a path of the processor that ends in
\* the unit.
RECURSIVE MostLocksTo(_, _, _)
MostLocksTo(proc, model, lock) ==
    LET own == IF (IF lock = "readLock" THEN model.lock_info.rd_lock
                   ELSE model.lock_info.wr_lock) THEN 1 ELSE 0
        upstream == {MostLocksTo(proc, pred, lock) :
                        pred \in PredsOf(proc, model.name)}
    IN  own + (IF upstream = {} THEN 0
               ELSE CHOOSE m \in upstream : \A o \in upstream : o <= m)

Ingesting == load_pc = "create_graph"
                /\ Len(flow_graph.units) < Len(raw_desc.units)

NextRecord == raw_desc.units[Len(flow_graph.units) + 1]

\* C24: when the loader comes to a unit record whose width is zero or
\* negative, loading fails with BadWidthError carrying the name and the
\* width of that record, and BadWidthError is raised for no other
\* reason; a description with such a record yields no processor; every
\* unit of a processor loaded has a width above zero.
C24_BadWidth ==
    /\ [][Ingesting /\ NextRecord.width <= 0 =>
            /\ load_pc' = "failed"
            /\ load_result' = [kind |-> "BadWidthError",
                               unit |-> NextRecord.name,
                               width |-> NextRecord.width]
            /\ flow_graph' = flow_graph]_vars
    /\ [][load_result'.kind = "BadWidthError"
            /\ load_result.kind # "BadWidthError"
            => Ingesting /\ NextRecord.width <= 0]_vars
    /\ []((\E k \in DOMAIN raw_desc.units : raw_desc.units[k].width <= 0)
            => ~IsLoaded /\ load_pc # "loaded")
    /\ [](IsLoaded =>
            \A model \in ModelsOf(load_result.processor) : model.width > 0)

\* Loading has failed on the third record of a description, of width
\* -1 and named as one of the two sound records before it but for case.
C24_Witness ==
    /\ load_pc = "failed"
    /\ load_result.kind = "BadWidthError"
    /\ Len(flow_graph.units) = 2
    /\ load_result.width = -1
    /\ load_result.unit = raw_desc.units[3].name
    /\ \E k \in 1..2 :
        /\ lower(flow_graph.units[k].name) = lower(load_result.unit)
        /\ flow_graph.units[k].name # load_result.unit


\* The names of the units of a processor, role by role.
NamesOf(proc) ==
    LET models == proc.in_ports \o proc.in_out_ports
                    \o [k \in DOMAIN proc.out_ports |->
                            proc.out_ports[k].model]
                    \o [k \in DOMAIN proc.internal_units |->
                            proc.internal_units[k].model]
    IN  [k \in DOMAIN models |-> models[k].name]

\* The units ingested whose name is the name of the next record but for
\* case.
SameNamed ==
    {k \in DOMAIN flow_graph.units :
        lower(flow_graph.units[k].name) = lower(NextRecord.name)}

HasLoop(graph) ==
    \E u \in Range(graph.units) : u.name \in Downstream(graph, u.name)

\* The data path of the description, names folded, as a graph of the
\* names it mentions; edges not of two units left out.
RawGraph ==
    LET pairs == SelectSeq(raw_desc.dataPath, LAMBDA e : Len(e) = 2)
        edges == [k \in DOMAIN pairs |->
                    <<lower(pairs[k][1]), lower(pairs[k][2])>>]
    IN  [units |-> [k \in DOMAIN edges |-> [name |-> edges[k][1]]],
         edges |-> edges]

\* The units upstream of a unit of a processor, in n steps at most after
\* the first.
RECURSIVE AncestorsIn(_, _, _)
AncestorsIn(proc, found, n) ==
    LET next == found \cup UNION {{pred.name : pred \in PredsOf(proc, name)} :
                                    name \in found}
    IN  IF n = 0 THEN found ELSE AncestorsIn(proc, next, n - 1)

Ancestors(proc, name) ==
    AncestorsIn(proc, {pred.name : pred \in PredsOf(proc, name)},
               Len(NamesOf(proc)))

\* C26: when the loop check finds the data path as built with a loop, be
\* it an edge from a unit to itself, two opposite edges or a longer loop,
\* loading fails, as the topological sort does, and it fails no data path
\* without loops; a description whose data path has a loop yields no
\* processor; no unit of a processor loaded is upstream of itself.
C26_NoLoops ==
    /\ [][load_pc = "chk_cycles" =>
            IF HasLoop(flow_graph)
            THEN /\ load_pc' = "failed"
                 /\ load_result' = [kind |-> "NetworkXUnfeasible"]
            ELSE /\ load_pc' = "clean_struct"
                 /\ load_result' = NoResult]_vars
    /\ [](HasLoop(RawGraph) => ~IsLoaded /\ load_pc # "loaded")
    /\ [](IsLoaded =>
            \A k \in DOMAIN NamesOf(load_result.processor) :
                NamesOf(load_result.processor)[k] \notin
                    Ancestors(load_result.processor,
                             NamesOf(load_result.processor)[k]))

\* Loading has failed on a data path whose edges are a loop through three
\* units, with no edge from a unit to itself and no two opposite edges.
C26_Witness ==
    /\ load_pc = "failed"
    /\ load_result.kind = "NetworkXUnfeasible"
    /\ Len(flow_graph.edges) = 3
    /\ \A e \in Range(flow_graph.edges) :
        /\ e[1] # e[2]
        /\ <<e[2], e[1]>> \notin Range(flow_graph.edges)
    /\ \A u \in Range(flow_graph.units) :
        u.name \in Downstream(flow_graph, u.name)



\* The instructions of entry before that Phase 2 could have moved and that
\* entry after still shows in their unit: not data-stalled, not in an
\* output.
HeldBack(before, after) ==
    {instr \in InstrsIn(before) :
        /\ StateOf(before, instr) # "DATA"
        /\ UnitOf(before, instr) \notin OutNames
        /\ instr \in InstrsOf(after[UnitOf(before, instr)])}

\* The units that take instructions of the category from the unit.
Takers(name, categ) ==
    {unit \in FuncUnits :
        /\ name \in PredNames(unit.model.name)
        /\ categ \in unit.model.capabilities}

\* The number of instructions the table shows up to its t-th entry: the
\* index of the instruction to fetch next.
EnteredBy(t) ==
    Cardinality(UNION {InstrsIn(util_tbl[s]) : s \in 1..t})

\* The processor is a pipeline whose stages do not narrow: no unit
\* accesses memory and every functional unit has one predecessor, no
\* wider than itself and supporting nothing that it does not support.
Pipeline ==
    /\ \A name \in DOMAIN Units : ~Units[name].mem_access
    /\ \A unit \in FuncUnits :
        /\ Len(unit.predecessors) = 1
        /\ unit.predecessors[1].width <= unit.model.width
        /\ unit.predecessors[1].capabilities \subseteq unit.model.capabilities
    /\ \A unit \in InUnits : unit.name \notin OutNames =>
            \E taker \in FuncUnits : unit.name \in PredNames(taker.model.name)

\* Every instruction of entry before is one unit further in entry after,
\* or has left the processor from an output.
Advanced(before, after) ==
    \A instr \in InstrsIn(before) :
        IF UnitOf(before, instr) \in OutNames
        THEN instr \notin InstrsIn(after)
        ELSE /\ instr \in InstrsIn(after)
             /\ UnitOf(before, instr) \in PredNames(UnitOf(after, instr))

\* C27: slots vacated during a cycle are reusable in that cycle.  An
\* instruction that could move is shown held in its unit only when every
\* unit taking its category from there is full in the entry of the cycle
\* itself, that is after that unit released its own instructions, or
\* accesses memory in a cycle where memory was taken; a cycle ends its
\* fetching only when no input has, after the moves, a slot for the next
\* instruction; and in a pipeline with no memory access whose stages do
\* not narrow, a cycle starting with no instruction data-stalled moves
\* every instruction one unit further, retires the ones in the outputs and
\* fetches the next instruction into an input.
C27_VacatedReusable ==
    /\ \A t \in DOMAIN util_tbl :
        \A instr \in HeldBack(EntryBefore(t), util_tbl[t]) :
            \A unit \in Takers(UnitOf(EntryBefore(t), instr),
                               program[instr + 1].categ) :
                \/ Len(util_tbl[t][unit.model.name]) = unit.model.width
                \/ /\ unit.model.mem_access
                   /\ MemArrivals(EntryBefore(t), util_tbl[t]) # {}
    /\ pc = "chk_full_stall" /\ entered < Len(program) =>
        \A unit \in InUnits :
            /\ program[entered + 1].categ \in unit.capabilities
            /\ ~(unit.mem_access /\ mem_busy)
            => Len(cp_util[unit.name]) = unit.width
    /\ Pipeline =>
        \A t \in DOMAIN util_tbl :
            (\A instr \in InstrsIn(EntryBefore(t)) :
                StateOf(EntryBefore(t), instr) # "DATA")
            => /\ Advanced(EntryBefore(t), util_tbl[t])
               /\ /\ EnteredBy(t - 1) < Len(program)
                  /\ \E unit \in InUnits :
                        program[EnteredBy(t - 1) + 1].categ
                            \in unit.capabilities
                  => \E unit \in InUnits :
                        EnteredBy(t - 1) \in InstrsOf(util_tbl[t][unit.name])

\* In two consecutive cycles of a three-stage pipeline every full stage
\* was emptied and filled again: the middle released its instruction and
\* received the input's, the input released and fetched, and then the
\* output retired and received the middle's.
C27_Witness ==
    /\ Pipeline
    /\ FuncUnits # {}
    /\ \E t \in DOMAIN util_tbl : t >= 2 /\ t < Len(util_tbl) /\
        \E unit \in FuncUnits : \E out_unit \in FuncUnits :
            LET name == unit.model.name
                pred == unit.predecessors[1].name
                out_name == out_unit.model.name
            IN  /\ name \notin OutNames /\ out_name \in OutNames
                /\ pred \in {in_unit.name : in_unit \in InUnits}
                /\ Len(util_tbl[t - 1][name]) = unit.model.width
                /\ Len(util_tbl[t - 1][pred]) = unit.predecessors[1].width
                /\ Len(util_tbl[t][name]) = unit.model.width
                /\ Len(util_tbl[t][pred]) = unit.predecessors[1].width
                /\ Len(util_tbl[t][out_name]) = out_unit.model.width
                /\ Len(util_tbl[t + 1][out_name]) = out_unit.model.width
                /\ InstrsOf(util_tbl[t][name])
                        = InstrsOf(util_tbl[t - 1][pred])
                /\ InstrsOf(util_tbl[t][pred])
                        \cap InstrsIn(util_tbl[t - 1]) = {}
                /\ InstrsOf(util_tbl[t + 1][out_name])
                        = InstrsOf(util_tbl[t][name])


\* C28: each cycle works on a deep copy of the previous entry: no step of
\* any cycle changes an entry already in the table (its units, their
\* instructions in their order and their stall states), a step only ever
\* appends one entry; all through a cycle the previous utilization is
\* still the last entry of the table, and the table StallError carries is
\* the table as it was appended.
C28_EntriesFrozen ==
    /\ [][/\ \A t \in DOMAIN util_tbl :
                t \in DOMAIN util_tbl' /\ util_tbl'[t] = util_tbl[t]
          /\ Len(util_tbl') <= Len(util_tbl) + 1]_vars
    /\ [](pc \in {"mov_flights", "fill_inputs", "chk_full_stall", "stalled"}
            => old_util = _old_util(Desc, util_tbl))
    /\ [](pc = "stalled" => processor_state = util_tbl)

\* A cycle after the second has flushed an instruction, moved another and
\* marked a third as stalled in its working copy, and the last entry of
\* the table is what it was.
C28_Witness ==
    /\ pc = "chk_full_stall"
    /\ Len(util_tbl) >= 2
    /\ util_tbl[Len(util_tbl)] = old_util
    /\ Retiring(old_util) # {}
    /\ Retiring(old_util) \cap InstrsIn(cp_util) = {}
    /\ \E instr \in InstrsIn(old_util) \cap InstrsIn(cp_util) :
            UnitOf(old_util, instr) # UnitOf(cp_util, instr)
    /\ \E instr \in InstrsIn(cp_util) :
            StateOf(cp_util, instr) # "NO_STALL"


\* The instructions that a step moves to another unit.
MovedNow ==
    {instr \in InstrsIn(cp_util) \cap InstrsIn(cp_util') :
        UnitOf(cp_util', instr) # UnitOf(cp_util, instr)}

\* The claim as the specification words it: once memory is busy, Phase 2
\* moves no candidate out of a host that accesses memory and none into a
\* destination that accesses memory.
C29_AsWorded ==
    [][pc = "mov_flights" /\ mem_busy =>
        \A instr \in MovedNow :
            /\ ~Units[UnitOf(cp_util, instr)].mem_access
            /\ ~Units[UnitOf(cp_util', instr)].mem_access]_vars

\* C29: in Phase 2, once mem_busy is true in a cycle it stays true, and a
\* destination that accesses memory takes no candidate and leaves the
\* utilization as it is; a destination that does not access memory still
\* takes its candidates of lowest index, as many as it has free slots,
\* whether or not their hosts access memory.
C29_BusyBlocksMemDst ==
    [][pc = "mov_flights" /\ mem_busy =>
        LET unit == _dst_units(Desc)[dst_idx]
        IN  /\ mem_busy'
            /\ IF unit.model.mem_access
               THEN cp_util' = cp_util
               ELSE /\ Arrived(unit, cp_util, cp_util')
                        = Smallest(Elig(unit, cp_util),
                                   _space_avail(unit.model, cp_util))
                    /\ MovedNow = Arrived(unit, cp_util, cp_util')]_vars

\* Phase 2 is over: after an earlier destination had taken memory in the
\* cycle, a destination that does not access memory took an instruction
\* from a host that does.
C29_Witness ==
    /\ pc = "fill_inputs"
    /\ mem_busy
    /\ \E k \in DOMAIN _dst_units(Desc) :
        LET pre == PhaseTwoBefore(k, old_util)
            unit == _dst_units(Desc)[k]
        IN  /\ pre.mem_busy
            /\ ~unit.model.mem_access
            /\ \E instr \in Arrived(unit, pre.util_info, cp_util) :
                    Units[UnitOf(pre.util_info, instr)].mem_access

(***************************************************************************)
(* Properties of BagValDict                                                *)
(***************************************************************************)
\* The keys a dictionary holds with a list that is not empty.
Shown(dict) == {key \in DOMAIN dict : Len(dict[key]) > 0}

\* How many times the list holds the value.
Count(val_lst, val) == Cardinality({i \in DOMAIN val_lst : val_lst[i] = val})

\* The same keys with lists that are not empty and, under each, the same
\* values as many times.
SameBags(self, other) ==
    /\ Shown(self) = Shown(other)
    /\ \A key \in Shown(self) : \A val \in BagVals :
            Count(self[key], val) = Count(other[key], val)

\* C30: two dictionaries compare equal exactly when they hold the same
\* keys with non-empty lists and under each of them the same multiset of
\* instruction states, whatever the order inside the lists and whatever
\* keys hold empty lists; the comparison the other way round gives the
\* same; != gives the opposite; and the length counts the keys with
\* non-empty lists.
C30_BagEquality ==
    bag_result # NoResult =>
        /\ bag_result.op = "eq" =>
            /\ bag_result.value = SameBags(bag_self, bag_other)
            /\ bag_result.value = BagValDict_eq(bag_other, bag_self)
        /\ bag_result.op = "ne" =>
            bag_result.value = ~SameBags(bag_self, bag_other)
        /\ bag_result.op = "len" =>
            bag_result.value = Cardinality(Shown(bag_self))

\* Two dictionaries have compared equal, one holding a key with an empty
\* list that the other does not hold and a list of two different states
\* that the other holds in the other order.
C30_Witness ==
    /\ bag_result = [op |-> "eq", value |-> TRUE]
    /\ DOMAIN bag_self # DOMAIN bag_other
    /\ \E key \in DOMAIN bag_self \ DOMAIN bag_other : bag_self[key] = <<>>
    /\ \E key \in Shown(bag_self) :
        /\ Len(bag_self[key]) = 2
        /\ bag_self[key][1] # bag_self[key][2]
        /\ bag_other[key] = <<bag_self[key][2], bag_self[key][1]>>


\* The names of the units instructions are fetched into.
InNames == {unit.name : unit \in InUnits}

\* The unit has, in the entry, a successor with a free slot that supports
\* the instruction.
CouldGoOn(util_info, name, instr) ==
    \E unit \in Takers(name, program[instr + 1].categ) :
        Len(util_info[unit.model.name]) < unit.model.width

\* C31: an instruction advances by at most one unit per cycle.  Phase 2
\* moves an instruction only from the unit it began the cycle in, so never
\* one it has moved already; once fetching has begun nothing moves, and a
\* fetched instruction is in an input; so at every moment of a cycle an
\* instruction the previous entry holds is in the unit it was in or in a
\* direct successor of it, and one it does not hold is in an input.
C31_OneUnitPerCycle ==
    /\ [][pc = "mov_flights" =>
            \A instr \in MovedNow :
                /\ instr \in InstrsIn(old_util)
                /\ UnitOf(cp_util, instr) = UnitOf(old_util, instr)
                /\ UnitOf(cp_util, instr)
                        \in PredNames(UnitOf(cp_util', instr))]_vars
    /\ [][pc = "fill_inputs" => MovedNow = {}]_vars
    /\ [](pc \in {"mov_flights", "fill_inputs", "chk_full_stall"} =>
            \A instr \in InstrsIn(cp_util) :
                IF instr \in InstrsIn(old_util)
                THEN \/ UnitOf(cp_util, instr) = UnitOf(old_util, instr)
                     \/ UnitOf(old_util, instr)
                            \in PredNames(UnitOf(cp_util, instr))
                ELSE UnitOf(cp_util, instr) \in InNames)

\* The table shows an instruction moved into a unit, and another fetched
\* into an input, in entries where a successor of that unit had a free
\* slot for it: it could have gone on had the cycle moved it again.
C31_Witness ==
    /\ \E t \in DOMAIN util_tbl :
        \E instr \in InstrsIn(util_tbl[t]) \cap InstrsIn(EntryBefore(t)) :
            /\ UnitOf(util_tbl[t], instr) # UnitOf(EntryBefore(t), instr)
            /\ CouldGoOn(util_tbl[t], UnitOf(util_tbl[t], instr), instr)
    /\ \E t \in DOMAIN util_tbl :
        \E instr \in InstrsIn(util_tbl[t]) \ InstrsIn(EntryBefore(t)) :
            CouldGoOn(util_tbl[t], UnitOf(util_tbl[t], instr), instr)


\* The entries of the table that show the instruction in the unit
\* unstalled.
UnstalledIn(name, instr) ==
    {s \in DOMAIN util_tbl :
        /\ instr \in InstrsOf(util_tbl[s][name])
        /\ StateOf(util_tbl[s], instr) = "NO_STALL"}

\* The state of an instruction in a unit and its state there in the next
\* entry, as DATA* NO_STALL STRUCTURAL* allows them.
PatternSteps ==
    {<<"DATA", "DATA">>, <<"DATA", "NO_STALL">>,
     <<"NO_STALL", "STRUCTURAL">>, <<"STRUCTURAL", "STRUCTURAL">>}

\* From entry to entry the instructions follow the pattern in every unit,
\* starting in DATA or NO_STALL.
FollowsPattern ==
    \A t \in DOMAIN util_tbl : \A instr \in InstrsIn(util_tbl[t]) :
        LET name == UnitOf(util_tbl[t], instr)
        IN  IF instr \in InstrsOf(EntryBefore(t)[name])
            THEN <<StateOf(util_tbl[t - 1], instr),
                   StateOf(util_tbl[t], instr)>> \in PatternSteps
            ELSE StateOf(util_tbl[t], instr) \in {"DATA", "NO_STALL"}

\* The claim as the specification words it, of the table a run ends with:
\* the pattern, with an instruction unstalled in exactly one entry for
\* each unit it occupies.
C32_AsWorded ==
    pc \in {"returned", "stalled"} =>
        /\ FollowsPattern
        /\ \A t \in DOMAIN util_tbl : \A instr \in InstrsIn(util_tbl[t]) :
            Cardinality(UnstalledIn(UnitOf(util_tbl[t], instr), instr)) = 1

\* C32: within one unit the states of an instruction over consecutive
\* entries follow DATA* NO_STALL STRUCTURAL*: it starts in DATA or
\* NO_STALL, never returns to DATA after NO_STALL and never leaves
\* STRUCTURAL for another state; it is NO_STALL in at most one entry per
\* unit, in exactly one for every unit it has left and, when simulate
\* returns, for every unit it occupied.
C32_StallPattern ==
    /\ FollowsPattern
    /\ \A t \in DOMAIN util_tbl : \A instr \in InstrsIn(util_tbl[t]) :
        LET name == UnitOf(util_tbl[t], instr)
            held == Cardinality(UnstalledIn(name, instr))
        IN  /\ held <= 1
            /\ t < Len(util_tbl) /\ instr \notin InstrsOf(util_tbl[t + 1][name])
                    => held = 1
            /\ pc = "returned" => held = 1

\* An instruction was in one unit data-stalled, then unstalled, then
\* structurally stalled, in three consecutive entries, and has left it.
C32_Witness ==
    \E t \in DOMAIN util_tbl : t + 3 <= Len(util_tbl) /\
        \E instr \in InstrsIn(util_tbl[t]) :
            LET name == UnitOf(util_tbl[t], instr)
            IN  /\ instr \in InstrsOf(util_tbl[t + 1][name])
                /\ instr \in InstrsOf(util_tbl[t + 2][name])
                /\ instr \notin InstrsOf(util_tbl[t + 3][name])
                /\ StateOf(util_tbl[t], instr) = "DATA"
                /\ StateOf(util_tbl[t + 1], instr) = "NO_STALL"
                /\ StateOf(util_tbl[t + 2], instr) = "STRUCTURAL"


\* The entries of the table in which the instruction retires.
RetiredAt(instr) ==
    {t \in DOMAIN util_tbl : instr \in Retiring(util_tbl[t])}

\* C33: when simulate returns, every instruction of the program retires
\* (is NO_STALL at an output boundary unit) in exactly one entry of the
\* table; the table of an empty program is empty; the last entry of any
\* other holds instructions, all of them retiring; and no entry compares
\* equal to the one before it.
C33_ReturnedTable ==
    pc = "returned" =>
        /\ \A instr \in 0..(Len(program) - 1) :
                Cardinality(RetiredAt(instr)) = 1
        /\ Len(program) = 0 => util_tbl = <<>>
        /\ Len(program) > 0 =>
            /\ util_tbl # <<>>
            /\ InstrsIn(util_tbl[Len(util_tbl)]) # {}
            /\ InstrsIn(util_tbl[Len(util_tbl)])
                    = Retiring(util_tbl[Len(util_tbl)])
        /\ \A t \in DOMAIN util_tbl :
                t > 1 => ~BagValDict_eq(util_tbl[t], util_tbl[t - 1])

\* simulate has returned the table of a program of three instructions
\* that retired in three different entries, one of them after having
\* been stalled at the output boundary.
C33_Witness ==
    /\ pc = "returned"
    /\ Len(program) = 3
    /\ Cardinality(UNION {RetiredAt(instr) : instr \in 0..2}) = 3
    /\ \E t \in DOMAIN util_tbl : \E instr \in InstrsIn(util_tbl[t]) :
        /\ UnitOf(util_tbl[t], instr) \in OutNames
        /\ StateOf(util_tbl[t], instr) = "DATA"


\* The processor is a single unit, input and output at once, holding both
\* locks.
SingleLockedUnit ==
    /\ Desc.in_ports = <<>> /\ Desc.out_ports = <<>>
    /\ Desc.internal_units = <<>>
    /\ Len(Desc.in_out_ports) = 1
    /\ Desc.in_out_ports[1].lock_info = LockInfo(TRUE, TRUE)

\* Every instruction of the program has a category the inputs support.
AllSupported ==
    \A k \in DOMAIN program :
        \E unit \in InUnits : program[k].categ \in unit.capabilities

\* C34: on a processor that is a single in_out unit with both locks, a
\* program whose instructions all have a supported category never ends
\* in StallError, whatever registers its instructions read and write.
C34_SingleUnitCompletes ==
    SingleLockedUnit /\ AllSupported => pc # "stalled"


\* The issue record of the run.
IssueRec == [entered |-> entered, exited |-> exited]

\* _run_cycle from the state the run is in.
CycleFromHere == _run_cycle(program, acc_queues, Desc, util_tbl, IssueRec)

\* The entry that a cycle run from the state the run is in computes.
EntryFromHere ==
    LET old == _old_util(Desc, util_tbl)
    IN  _chk_hazards(old, _fill_cp_util(Desc, program, old, entered).util_info,
                     Units, program, acc_queues).util_info

\* C35: the cycle that raises StallError changes nothing that was
\* committed.  A cycle that is going to raise fetches nothing, and its
\* hazard check dequeues no register access; raising leaves the queues,
\* entered, exited and the table as they are; run as a whole from a state
\* between cycles, a cycle that raises gives back the queues, the issue
\* record and the table it was given; and the cycle run again from the
\* state StallError was raised in raises again with the same entry.
C35_StallCommitsNothing ==
    /\ [][(/\ pc = "fill_inputs" /\ pc' = "chk_full_stall"
           /\ _chk_full_stall(old_util, cp_util'))
            => acc_queues' = acc_queues]_vars
    /\ [][pc' = "stalled" =>
            /\ acc_queues' = acc_queues /\ util_tbl' = util_tbl
            /\ entered' = entered /\ exited' = exited]_vars
    /\ [](pc = "chk_full_stall" /\ _chk_full_stall(old_util, cp_util) =>
            /\ InstrsIn(cp_util) \subseteq InstrsIn(old_util)
            /\ entered = EnteredBy(Len(util_tbl)))
    /\ [](pc = "simulate" /\ InProgress /\ CycleFromHere.raised =>
            /\ CycleFromHere.acc_queues = acc_queues
            /\ CycleFromHere.issue_rec = IssueRec
            /\ CycleFromHere.util_tbl = util_tbl)
    /\ [](pc = "stalled" =>
            /\ CycleFromHere.raised
            /\ CycleFromHere.acc_queues = acc_queues
            /\ CycleFromHere.issue_rec = IssueRec
            /\ EntryFromHere = cp_util)

\* StallError was raised after two entries, with an instruction left to
\* fetch, another in flight and register accesses still queued.
C35_Witness ==
    /\ pc = "stalled"
    /\ Len(util_tbl) >= 2
    /\ entered < Len(program)
    /\ exited < entered
    /\ \E reg \in DOMAIN acc_queues : acc_queues[reg] # <<>>


\* The requests of the type the instruction still has in the queue of the
\* register, counted.
Pending(queues, reg, req_type, instr) ==
    IF reg \notin DOMAIN queues THEN 0
    ELSE Cardinality({place \in (DOMAIN queues[reg]) \X (1..MaxProg) :
            /\ queues[reg][place[1]].access_type = req_type
            /\ place[2] \in DOMAIN queues[reg][place[1]].owners
            /\ queues[reg][place[1]].owners[place[2]] = instr})

\* The accesses to the register that the unit has to be granted before it
\* unstalls the instruction, counted by type.
Needed(name, reg, req_type, instr) ==
    LET hw_instr == program[instr + 1]
    IN  IF req_type = "READ"
        THEN IF Units[name].lock_info.rd_lock
             THEN Count(hw_instr.sources, reg) ELSE 0
        ELSE IF Units[name].lock_info.wr_lock /\ hw_instr.destination = reg
             THEN 1 ELSE 0

\* The accesses to the register that the entry unstalls the instruction
\* with, counted by type.
GrantedIn(util_info, reg, req_type, instr) ==
    IF instr \in InstrsIn(util_info) /\ StateOf(util_info, instr) = "NO_STALL"
    THEN Needed(UnitOf(util_info, instr), reg, req_type, instr)
    ELSE 0

\* The instruction is in the unit in entry t and not in the one after, or
\* in the one under construction once the moves are over.
LeavesAfter(t, name, instr) ==
    /\ instr \in InstrsOf(util_tbl[t][name])
    /\ \/ t < Len(util_tbl) /\ instr \notin InstrsOf(util_tbl[t + 1][name])
       \/ /\ t = Len(util_tbl)
          /\ pc \in {"fill_inputs", "chk_full_stall", "stalled"}
          /\ instr \notin InstrsOf(cp_util[name])

\* C36: an instruction leaves a unit, forward or by retiring, only after
\* an entry that shows it NO_STALL there; the hazard check marks an
\* instruction NO_STALL in a unit only when the queues grant every access
\* the unit's locks ask for, and takes out of the queues exactly the
\* accesses granted in that cycle, each once: nothing for an instruction
\* left DATA or STRUCTURAL, and no other step touches the queues.  Hence
\* an instruction that has left a lock unit has none of the accesses of
\* that lock left in the queues.
C36_LeaveAfterGrant ==
    /\ [](\A t \in DOMAIN util_tbl : \A name \in DOMAIN Units :
            \A instr \in InstrsOf(util_tbl[t][name]) :
                LeavesAfter(t, name, instr) =>
                    /\ \E s \in UnstalledIn(name, instr) : s <= t
                    /\ \A reg \in Registers : \A req_type \in {"READ", "WRITE"} :
                        Needed(name, reg, req_type, instr) > 0 =>
                            Pending(acc_queues, reg, req_type, instr) = 0)
    /\ [][pc = "fill_inputs" /\ pc' = "chk_full_stall" =>
            \A instr \in InstrsIn(cp_util') : \A reg \in Registers :
                \A req_type \in {"READ", "WRITE"} :
                    /\ GrantedIn(cp_util', reg, req_type, instr) > 0 =>
                            can_access(acc_queues[reg], req_type, instr)
                    /\ Pending(acc_queues', reg, req_type, instr)
                        = Pending(acc_queues, reg, req_type, instr)
                            - GrantedIn(cp_util', reg, req_type, instr)]_vars
    /\ [][acc_queues' # acc_queues =>
            pc = "fill_inputs" /\ pc' = "chk_full_stall"]_vars

\* An instruction was granted its read at a read lock unit, waited there
\* STRUCTURAL and has left, its read gone from the queues and its write
\* still queued.
C36_Witness ==
    \E t \in DOMAIN util_tbl : \E name \in DOMAIN Units :
        \E instr \in InstrsOf(util_tbl[t][name]) :
            /\ LeavesAfter(t, name, instr)
            /\ StateOf(util_tbl[t], instr) = "STRUCTURAL"
            /\ Units[name].lock_info.rd_lock
            /\ program[instr + 1].sources # <<>>
            /\ Pending(acc_queues, program[instr + 1].destination,
                       "WRITE", instr) = 1


\* The names of the units at the output boundary, as the processor
\* description lists them.
BoundaryNames ==
    {Desc.in_out_ports[k].name : k \in DOMAIN Desc.in_out_ports}
        \cup {Desc.out_ports[k].model.name : k \in DOMAIN Desc.out_ports}

\* The names of the units that declare no lock.
UnlockedNames ==
    {name \in DOMAIN Units :
        ~Units[name].lock_info.rd_lock /\ ~Units[name].lock_info.wr_lock}

\* The states the entry shows in the unit.
StatesIn(util_info, name) ==
    {util_info[name][k].stalled : k \in DOMAIN util_info[name]}

\* The entry marks no instruction STRUCTURAL at the output boundary and
\* none DATA in a unit without locks.
WellMarked(util_info) ==
    /\ \A name \in BoundaryNames :
            StatesIn(util_info, name) \subseteq {"DATA", "NO_STALL"}
    /\ \A name \in UnlockedNames : "DATA" \notin StatesIn(util_info, name)

\* C37: in every entry of the table, in the entry the hazard check has
\* just marked and in the table StallError carries, an instruction at an
\* output boundary unit (in_out_ports or out_ports) is DATA or NO_STALL,
\* never STRUCTURAL, and a unit with neither read_lock nor write_lock
\* holds no instruction in DATA state.
C37_BoundaryNeverStructural ==
    /\ \A t \in DOMAIN util_tbl : WellMarked(util_tbl[t])
    /\ pc \in {"chk_full_stall", "stalled"} => WellMarked(cp_util)
    /\ \A t \in DOMAIN processor_state : WellMarked(processor_state[t])

\* An output boundary unit held an instruction DATA in two entries running
\* and then NO_STALL.
C37_Witness ==
    \E t \in DOMAIN util_tbl : \E name \in BoundaryNames :
        \E instr \in InstrsOf(util_tbl[t][name]) :
            /\ t + 2 \in DOMAIN util_tbl
            /\ util_tbl[t + 1][name] = util_tbl[t][name]
            /\ StateOf(util_tbl[t], instr) = "DATA"
            /\ instr \in InstrsOf(util_tbl[t + 2][name])
            /\ StateOf(util_tbl[t + 2], instr) = "NO_STALL"


\* The unit lists the category of the instruction among its capabilities.
Supports(name, instr) ==
    program[instr + 1].categ \in Units[name].capabilities

\* Every instruction the entry holds is in a unit that supports it.
AllHostsSupport(util_info) ==
    \A name \in DOMAIN util_info : \A instr \in InstrsOf(util_info[name]) :
        Supports(name, instr)

\* C38: in every entry of the table, in the entry under construction at
\* every step of a cycle and in the table StallError carries, every
\* instruction is held by a unit listing its category.  An instruction new
\* to the entry under construction is in an input unit listing its
\* category; one that has changed units is in a destination listing it.
C38_HostsSupportCategory ==
    /\ \A t \in DOMAIN util_tbl : AllHostsSupport(util_tbl[t])
    /\ \A t \in DOMAIN processor_state : AllHostsSupport(processor_state[t])
    /\ AllHostsSupport(cp_util)
    /\ \A instr \in InstrsIn(cp_util) :
        LET name == UnitOf(cp_util, instr)
        IN  IF instr \notin InstrsIn(old_util)
            THEN name \in InNames /\ Supports(name, instr)
            ELSE name # UnitOf(old_util, instr) =>
                    /\ \E unit \in FuncUnits : unit.model.name = name
                    /\ Supports(name, instr)

\* An instruction moved from a unit into a successor listing its category
\* while another successor of that unit, which does not list it, had room.
C38_Witness ==
    \E t \in DOMAIN util_tbl : \E instr \in InstrsIn(util_tbl[t]) :
        /\ t + 1 \in DOMAIN util_tbl
        /\ instr \in InstrsIn(util_tbl[t + 1])
        /\ UnitOf(util_tbl[t + 1], instr) # UnitOf(util_tbl[t], instr)
        /\ \E unit \in FuncUnits :
            /\ \E k \in DOMAIN unit.predecessors :
                    unit.predecessors[k].name = UnitOf(util_tbl[t], instr)
            /\ ~Supports(unit.model.name, instr)
            /\ Len(util_tbl[t + 1][unit.model.name]) < unit.model.width


(***************************************************************************)
(* The legacy simulator (processor.py).  A utilization registry is a       *)
(* function over the unit names; a unit whose list is empty is a unit the  *)
(* registry does not hold.  An instruction state is an index and a stalled *)
(* flag.  Positions in a list count from 1.                                *)
(***************************************************************************)
\* Longest program run on the legacy simulator.
MaxLegacyProg == 4

\* str.lower over the categories.
categ_lower(categ) ==
    CASE categ = "ALU" -> "alu"
      [] categ = "MEM" -> "mem"
      [] OTHER -> categ

\* "input a" (three wide) -> "stage" (three wide) -> "output" (two wide),
\* "input b" (one wide) -> "merge" (two wide) -> "output"; "stage" feeds
\* "merge" as well.  All units support ALU.
LegacyMergeProc ==
    LET input_a == UnitModel(1, 3, {"ALU"}, LockInfo(FALSE, FALSE), FALSE)
        input_b == UnitModel(2, 1, {"ALU"}, LockInfo(FALSE, FALSE), FALSE)
        stage == UnitModel(3, 3, {"ALU"}, LockInfo(FALSE, FALSE), FALSE)
        merge == UnitModel(4, 2, {"ALU"}, LockInfo(FALSE, FALSE), FALSE)
        out_unit == UnitModel(5, 2, {"ALU"}, LockInfo(FALSE, FALSE), FALSE)
    IN  ProcessorDesc(<<input_a, input_b>>,
                      <<FuncUnit(out_unit, <<stage, merge>>)>>, <<>>,
                      <<FuncUnit(stage, <<input_a>>),
                        FuncUnit(merge, <<input_b, stage>>)>>)

\* "input" (two wide, ALU and MEM) -> "output" (one wide, ALU and MEM),
\* beside "core" (one wide, MEM only), an input and an output at once.
LegacyPipeProc ==
    LET in_unit == UnitModel(1, 2, {"ALU", "MEM"}, LockInfo(FALSE, FALSE), FALSE)
        out_unit == UnitModel(2, 1, {"ALU", "MEM"}, LockInfo(FALSE, FALSE), FALSE)
        core == UnitModel(3, 1, {"MEM"}, LockInfo(FALSE, FALSE), FALSE)
    IN  ProcessorDesc(<<in_unit>>, <<FuncUnit(out_unit, <<in_unit>>)>>,
                      <<core>>, <<>>)

LegacyProcessors == <<LegacyMergeProc, LegacyPipeProc>>

LegacyDesc == LegacyProcessors[hw_info]

LegacyPrograms ==
    UNION {[1..n -> {HwInstruction(<<>>, "R1", "ALU"),
                     HwInstruction(<<>>, "R2", "MEM")}] :
            n \in 0..MaxLegacyProg}

\* UtilizationReg(): no unit holds an instruction.
UtilizationReg(names) == [name \in names |-> <<>>]

\* unit in util_info
UtilizationReg_contains(self, unit) == self[unit] # <<>>

\* UtilizationReg.__eq__: as many units, and every unit of self with the
\* same list as in other, both sorted by program index.
UtilizationReg_eq(self, other) ==
    /\ Cardinality({unit \in DOMAIN self :
                        UtilizationReg_contains(self, unit)})
        = Cardinality({unit \in DOMAIN other :
                        UtilizationReg_contains(other, unit)})
    /\ \A unit \in DOMAIN self : UtilizationReg_contains(self, unit) =>
            sorted_vals(self[unit]) = sorted_vals(other[unit])

UtilizationReg_add(self, unit, instr) ==
    [self EXCEPT ![unit] = Append(@, InstrState(instr, FALSE))]

\* UtilizationReg.remove: pops the position from the unit's list.  The
\* assertion compares the position with the list itself (instr_index <
\* self[unit], an int against a tuple), which Python 2 finds true whatever
\* the two are, so a position past the end reaches list.pop, and a unit the
\* registry does not hold any more reaches the dictionary lookup.
UtilizationReg_remove(self, unit, instr_index) ==
    IF ~UtilizationReg_contains(self, unit)
    THEN [error |-> "KeyError", reg |-> self]
    ELSE IF instr_index > Len(self[unit])
    THEN [error |-> "IndexError", reg |-> self]
    ELSE [error |-> "none",
          reg |-> [self EXCEPT ![unit] = DelAt(@, instr_index)]]

\* The positions of the instructions of the list whose lower-cased category
\* is among the lower-cased capabilities.
legacy_get_accepted(instructions, prog, capabilities) ==
    SelectSeq([i \in DOMAIN instructions |-> i],
              LAMBDA i : categ_lower(prog[instructions[i].instr + 1].categ)
                            \in {categ_lower(cap) : cap \in capabilities})

\* The candidates of the predecessors the registry holds, the smallest
\* program indices first, as many as the unit has room for.
legacy_get_candidates(unit, prog, util_info) ==
    LET preds == SelectSeq(unit.predecessors, LAMBDA pred :
                    UtilizationReg_contains(util_info, pred.name))
        candidates == [k \in DOMAIN preds |->
                        _get_new_guests(preds[k].name, legacy_get_accepted(
                            util_info[preds[k].name], prog,
                            unit.model.capabilities))]
    IN  nsmallest(_space_avail(unit.model, util_info), chain(candidates),
                  util_info)

RECURSIVE legacy_mov_candidates(_, _, _)
legacy_mov_candidates(candidates, unit, util_info) ==
    IF candidates = <<>> THEN util_info
    ELSE legacy_mov_candidates(
            Tail(candidates), unit,
            UtilizationReg_add(
                util_info, unit,
                util_info[Head(candidates).host][
                    Head(candidates).index_in_host].instr))

\* The removals go on until one raises.
RECURSIVE legacy_clr_src_units(_, _)
legacy_clr_src_units(instructions, util_info) ==
    IF instructions = <<>> THEN [error |-> "none", reg |-> util_info]
    ELSE LET res == UtilizationReg_remove(
                        util_info, Head(instructions).host,
                        Head(instructions).index_in_host)
         IN  IF res.error # "none" THEN res
             ELSE legacy_clr_src_units(Tail(instructions), res.reg)

\* The candidates are added in order and removed in reverse order.
legacy_fill_unit(unit, prog, util_info) ==
    LET candidates == legacy_get_candidates(unit, prog, util_info)
    IN  legacy_clr_src_units(
            Reversed(candidates),
            legacy_mov_candidates(candidates, unit.model.name, util_info))

\* del unit_util[cur_out.name] for every output the registry holds.
legacy_flush_outputs(out_units, unit_util) ==
    [name \in DOMAIN unit_util |->
        IF \E k \in DOMAIN out_units : out_units[k].name = name
        THEN <<>> ELSE unit_util[name]]

\* Every instruction of the given units is marked as stalled.
legacy_stall_units(units, util_info) ==
    [name \in DOMAIN util_info |->
        IF \E k \in DOMAIN units : units[k].name = name
        THEN [i \in DOMAIN util_info[name] |->
                InstrState(util_info[name][i].instr, TRUE)]
        ELSE util_info[name]]

\* The inputs of each lower-cased capability, in the order given.
legacy_build_cap_map(inputs) ==
    [cap \in {categ_lower(c) : c \in UNION {inputs[k].capabilities :
                                            k \in DOMAIN inputs}} |->
        SelectSeq(inputs, LAMBDA unit :
            cap \in {categ_lower(c) : c \in unit.capabilities})]

\* The first input with room takes the instruction.
legacy_accept_instr(instr, instr_index, cap_unit_map, util_info) ==
    LET inputs == IF instr \in DOMAIN cap_unit_map
                  THEN cap_unit_map[instr] ELSE <<>>
        acceptors == SelectSeq(inputs, LAMBDA unit :
                        _space_avail(unit, util_info) # 0)
    IN  IF acceptors = <<>> THEN [accepted |-> FALSE, util_info |-> util_info]
        ELSE [accepted |-> TRUE,
              util_info |-> UtilizationReg_add(util_info, acceptors[1].name,
                                               instr_index)]

RECURSIVE legacy_fill_inputs(_, _, _, _)
legacy_fill_inputs(cap_unit_map, prog, util_info, issue) ==
    IF issue >= Len(prog) THEN [entered |-> issue, util_info |-> util_info]
    ELSE LET res == legacy_accept_instr(categ_lower(prog[issue + 1].categ),
                                        issue, cap_unit_map, util_info)
         IN  IF ~res.accepted
             THEN [entered |-> issue, util_info |-> util_info]
             ELSE legacy_fill_inputs(cap_unit_map, prog, res.util_info,
                                     issue + 1)

RECURSIVE legacy_count_outputs(_, _)
legacy_count_outputs(outputs, util_info) ==
    IF outputs = <<>> THEN 0
    ELSE Len(util_info[Head(outputs).name])
            + legacy_count_outputs(Tail(outputs), util_info)

(***************************************************************************)
(* The legacy simulator as a state machine.  It runs on the variables of   *)
(* the simulator: the registers, the memory flag and the shared lists have *)
(* no part in it.  _fill_cp_util lists the outputs and the destinations as *)
(* sim_services.py does, so _get_out_ports and _dst_units serve here too.  *)
(***************************************************************************)
LegacyInit ==
    /\ hw_info \in DOMAIN LegacyProcessors
    /\ program \in LegacyPrograms
    /\ util_tbl = <<>>
    /\ acc_queues = <<>>
    /\ entered = 0
    /\ exited = 0
    /\ old_util = UtilizationReg(DOMAIN name_unit_map(LegacyProcessors[hw_info]))
    /\ cp_util = old_util
    /\ cp_shared = {}
    /\ mem_busy = FALSE
    /\ dst_idx = 1
    /\ accepted = TRUE
    /\ pc = "simulate"
    /\ processor_state = <<>>
    /\ raw_desc = [units |-> <<>>, dataPath |-> <<>>]
    /\ load_pc = "idle"
    /\ flow_graph = [units |-> <<>>, edges |-> <<>>]
    /\ load_result = NoResult
    /\ bag_self = BagValDict({})
    /\ bag_other = BagValDict({})
    /\ bag_result = NoResult

\* _run_cycle up to the flush: the last entry is copied and the outputs
\* are emptied.
LegacyFlushOutputs ==
    /\ pc = "simulate"
    /\ entered < Len(program) \/ exited < entered
    /\ old_util' = IF util_tbl # <<>> THEN util_tbl[Len(util_tbl)]
                   ELSE UtilizationReg(DOMAIN name_unit_map(LegacyDesc))
    /\ cp_util' = legacy_flush_outputs(_get_out_ports(LegacyDesc), old_util')
    /\ dst_idx' = 1
    /\ pc' = "mov_flights"
    /\ UNCHANGED <<load_vars, bag_vars, hw_info, program, util_tbl,
                   acc_queues, entered, exited, cp_shared, mem_busy,
                   accepted, processor_state>>

\* simulate returns the table.
LegacyReturn ==
    /\ pc = "simulate"
    /\ ~(entered < Len(program) \/ exited < entered)
    /\ pc' = "returned"
    /\ UNCHANGED <<load_vars, bag_vars, hw_info, program, util_tbl,
                   acc_queues, entered, exited, old_util, cp_util, cp_shared,
                   mem_busy, dst_idx, accepted, processor_state>>

\* One turn of the loop of _mov_flights; an exception of a removal ends
\* the run.
LegacyFillUnit ==
    /\ pc = "mov_flights"
    /\ dst_idx \in DOMAIN _dst_units(LegacyDesc)
    /\ LET res == legacy_fill_unit(_dst_units(LegacyDesc)[dst_idx],
                                   program, cp_util)
       IN  /\ cp_util' = res.reg
           /\ pc' = IF res.error = "none" THEN "mov_flights" ELSE res.error
    /\ dst_idx' = dst_idx + 1
    /\ UNCHANGED <<load_vars, bag_vars, hw_info, program, util_tbl,
                   acc_queues, entered, exited, old_util, cp_shared,
                   mem_busy, accepted, processor_state>>

\* The rest of _fill_cp_util: the inputs are stalled, then filled, and the
\* outputs are counted.
LegacyFillInputs ==
    /\ pc = "mov_flights"
    /\ dst_idx \notin DOMAIN _dst_units(LegacyDesc)
    /\ LET res == legacy_fill_inputs(
                    legacy_build_cap_map(LegacyDesc.in_out_ports
                                            \o LegacyDesc.in_ports),
                    program,
                    legacy_stall_units(LegacyDesc.in_ports, cp_util),
                    entered)
       IN  /\ cp_util' = res.util_info
           /\ entered' = res.entered
           /\ exited' = exited + legacy_count_outputs(
                            _get_out_ports(LegacyDesc), res.util_info)
    /\ pc' = "chk_stall"
    /\ UNCHANGED <<load_vars, bag_vars, hw_info, program, util_tbl,
                   acc_queues, old_util, cp_shared, mem_busy, dst_idx,
                   accepted, processor_state>>

\* _chk_stall raises StallError.
LegacyRaiseStallError ==
    /\ pc = "chk_stall"
    /\ UtilizationReg_eq(cp_util, old_util)
    /\ pc' = "stalled"
    /\ UNCHANGED <<load_vars, bag_vars, hw_info, program, util_tbl,
                   acc_queues, entered, exited, old_util, cp_util, cp_shared,
                   mem_busy, dst_idx, accepted, processor_state>>

\* The entry is appended.
LegacyCommit ==
    /\ pc = "chk_stall"
    /\ ~UtilizationReg_eq(cp_util, old_util)
    /\ util_tbl' = Append(util_tbl, cp_util)
    /\ pc' = "simulate"
    /\ UNCHANGED <<load_vars, bag_vars, hw_info, program, acc_queues,
                   entered, exited, old_util, cp_util, cp_shared, mem_busy,
                   dst_idx, accepted, processor_state>>

LegacyNext ==
    \/ LegacyFlushOutputs
    \/ LegacyReturn
    \/ LegacyFillUnit
    \/ LegacyFillInputs
    \/ LegacyRaiseStallError
    \/ LegacyCommit

LegacySpec == LegacyInit /\ [][LegacyNext]_vars

\* The unit a turn of the loop of _mov_flights fills.
LegacyDst == _dst_units(LegacyDesc)[dst_idx]

\* The instructions a step has appended to the unit's list.
CopiedInto(name) ==
    {cp_util'[name][k].instr :
        k \in (DOMAIN cp_util'[name]) \ (DOMAIN cp_util[name])}

\* C39: in the legacy simulator a fill of a unit raises nothing, leaves
\* the destination's earlier instructions in place and takes out of every
\* other unit exactly the instructions copied into the destination, the
\* others staying in their order; so after it every instruction the
\* registry held is held once.
C39_FillRemovesCopied ==
    [][pc = "mov_flights" /\ dst_idx \in DOMAIN _dst_units(LegacyDesc) =>
        LET name == LegacyDst.model.name
        IN  /\ pc' = "mov_flights"
            /\ SubSeq(cp_util'[name], 1, Len(cp_util[name])) = cp_util[name]
            /\ \A src \in (DOMAIN cp_util) \ {name} :
                cp_util'[src] = SelectSeq(cp_util[src], LAMBDA instr :
                                    instr.instr \notin CopiedInto(name))
            /\ \A instr \in InstrsIn(cp_util) :
                Cardinality({place \in Places(cp_util') :
                    cp_util'[place[1]][place[2]].instr = instr}) = 1]_vars

====
